---- MODULE Spec2Model ----
(***************************************************************************)
(* A model of the product analysis pipeline of pipeline.py: the filter,    *)
(* dedup and rank step of ProductAnalysisPipeline.run, the pure function   *)
(* select_top_products, and the staged orchestration (detail fetches in    *)
(* parallel, review fetches one after the other, analyses in parallel),    *)
(* with the credentials the handlers read when they are constructed and    *)
(* the calls made to the providers; of the report generator's             *)
(* _parse_analysis_text; of regenerate_html's regrouping of the persisted  *)
(* reviews; of SerpHandler.search_products_paginated; of the title and     *)
(* description of the analysis request built by analyze_all_products; of   *)
(* the polling loops ApifyHandler.wait_for_completion and                  *)
(* BrightDataHandler.get_snapshot_data; of the tagging and persistence of  *)
(* the reviews in run(); and of save_to_json when a write fails.           *)
(*                                                                         *)
(* Python values are encoded as follows.  None (and, for rating and        *)
(* reviews, an absent key, which the code reads the same way) is the       *)
(* integer NoneInt.  Ratings and review counts are naturals.  A price is a *)
(* record [kind, chars, num]: kind "absent" (no 'price' key), "none"       *)
(* (None), "str" (a string, chars its characters) or "num" (a number, num  *)
(* its value in units of 1/PriceScale).  A title is a string, NoTitle for  *)
(* None.  An analysis text is a sequence of tokens (characters, the line   *)
(* break, and the phrases the parser treats as a unit).                    *)
(***************************************************************************)
EXTENDS Integers, Sequences, FiniteSets, TLC

\* ------------------------------------------------------------------ bounds
MaxRaw == 3        \* longest raw candidate sequence handed to the filter step
MaxProducts == 3   \* longest list handed to select_top_products directly
MaxLimit == 2      \* largest limit handed to select_top_products directly
MaxRunRaw == 2     \* longest raw result of the search in a modelled run
MaxLines == 3      \* most lines of an analysis text handed to the parser
MaxItems == 3      \* most numbered items in a section of a sectioned analysis text
MaxRegenProducts == 2   \* most entries of a persisted shortlist
MaxReviews == 3    \* most records of a persisted reviews.json
MaxPages == 3      \* largest number of pages asked of the paginated search
MaxBullets == 2    \* most feature bullets of a detail record
MaxWait == 3       \* largest max_wait of a modelled wait, in seconds
MaxSetSize == 2    \* most reviews the provider returns for one entry
MaxPolls == 3      \* most polls of a snapshot in a modelled wait
MaxInterval == 2   \* largest check_interval of a modelled wait, in seconds

\* ------------------------------------------------------- program constants
RunLimit == 10          \* run() calls select_top_products(..., limit=10)
PriceSentinel == 999999 \* sort_key's value for a missing or empty-after-cleaning price
PriceScale == 100       \* prices are modelled in hundredths

NoneInt == 0 - 1
NoTitle == "<None>"

\* None where product.get(key) finds no string, and the mark of a key a
\* dictionary does not have.
NoneStr == "<None>"

AbsentKey == "<absent>"

\* ------------------------------------------------------------ small helpers
Min(a, b) == IF a <= b THEN a ELSE b

Range(s) == {s[i] : i \in 1..Len(s)}

SeqsUpTo(S, n) == UNION {[1..k -> S] : k \in 0..n}

\* Python truthiness of a number-or-None.
Truthy(x) == x # NoneInt /\ x # 0

\* `x or 0` of sort_key.
OrZero(x) == IF Truthy(x) THEN x ELSE 0

\* ------------------------------------------------------------- price values
AbsentPrice == [kind |-> "absent", chars |-> <<>>, num |-> 0]
NonePrice == [kind |-> "none", chars |-> <<>>, num |-> 0]
StrPrice(cs) == [kind |-> "str", chars |-> cs, num |-> 0]
NumPrice(n) == [kind |-> "num", chars |-> <<>>, num |-> n]

\* The characters str.isdigit accepts, among those of the modelled prices.
Digits == {"0", "1", "2", "3", "4", "5", "6", "7", "8", "9"}

DigitVal(c) ==
  CASE c = "0" -> 0 [] c = "1" -> 1 [] c = "2" -> 2 [] c = "3" -> 3
    [] c = "4" -> 4 [] c = "5" -> 5 [] c = "6" -> 6 [] c = "7" -> 7
    [] c = "8" -> 8 [] c = "9" -> 9

\* ''.join(c for c in price if c.isdigit() or c == '.')
RECURSIVE PriceClean(_)
PriceClean(cs) ==
  IF cs = <<>> THEN <<>>
  ELSE IF Head(cs) \in Digits \/ Head(cs) = "."
       THEN <<Head(cs)>> \o PriceClean(Tail(cs))
       ELSE PriceClean(Tail(cs))

CountDots(cs) == Cardinality({i \in 1..Len(cs) : cs[i] = "."})

CountDigits(cs) == Cardinality({i \in 1..Len(cs) : cs[i] \in Digits})

\* float(s) accepts a cleaned string iff it has a digit and at most one '.'.
FloatParses(cs) == CountDigits(cs) >= 1 /\ CountDots(cs) <= 1

\* The integer written by a string of digits.
RECURSIVE DigitsValue(_)
DigitsValue(ds) ==
  IF ds = <<>> THEN 0
  ELSE 10 * DigitsValue(SubSeq(ds, 1, Len(ds) - 1)) + DigitVal(ds[Len(ds)])

DotPos(cs) == IF CountDots(cs) = 0 THEN Len(cs) + 1
              ELSE CHOOSE i \in 1..Len(cs) : cs[i] = "."

\* float(s) of a cleaned string that parses, in units of 1/PriceScale
\* (two fractional digits are kept).
FloatValue(cs) ==
  LET d == DotPos(cs)
      whole == SubSeq(cs, 1, d - 1)
      frac == SubSeq(cs, d + 1, Len(cs))
      f1 == IF Len(frac) >= 1 THEN DigitVal(frac[1]) ELSE 0
      f2 == IF Len(frac) >= 2 THEN DigitVal(frac[2]) ELSE 0
  IN DigitsValue(whole) * PriceScale + 10 * f1 + f2

\* ------------------------------------------------------------ candidates
\* A product dictionary with the keys the filter step copies: a filtered
\* product, a shortlist entry, a product handed to select_top_products.  The
\* link, the clean link and the thumbnail are the same for every product.
Product(a, t, r, v, p) ==
  [asin |-> a, title |-> t, link |-> "link", link_clean |-> "clean",
   thumbnail |-> "thumb", rating |-> r, reviews |-> v, price |-> p]

\* A raw record of the search provider: the product's keys, its clean link
\* as given (AbsentKey when the record has none), and a further key of the
\* provider's that the filter step does not read.
SearchRecord(product, link_clean) ==
  [f \in DOMAIN product \cup {"other"} |->
     CASE f = "other" -> "x"
       [] f = "link_clean" -> link_clean
       [] OTHER -> product[f]]

\* ------------------------------------------------ select_top_products
\* The third component of sort_key's tuple, in units of 1/PriceScale;
\* price = p.get('price', 0) is 0 when the key is absent.
PriceKey(p) ==
  CASE p.price.kind = "absent" -> 0
    [] p.price.kind = "none" -> PriceSentinel * PriceScale
    [] p.price.kind = "num" -> p.price.num
    [] p.price.kind = "str" ->
         IF PriceClean(p.price.chars) = <<>>
         THEN PriceSentinel * PriceScale
         ELSE FloatValue(PriceClean(p.price.chars))

\* float(price_clean) raises ValueError on a non-empty cleaned string that is
\* not one number.
SortKeyRaises(p) ==
  /\ p.price.kind = "str"
  /\ PriceClean(p.price.chars) # <<>>
  /\ ~FloatParses(PriceClean(p.price.chars))

\* A faulty variant of sort_key: the rating is not negated.
SortKeyRatingAscending(p) ==
  <<OrZero(p.rating), 0 - OrZero(p.reviews), PriceKey(p)>>

\* (-rating, -reviews, price)
sort_key(p) == <<0 - OrZero(p.rating), 0 - OrZero(p.reviews), PriceKey(p)>>

\* Python's tuple comparison, k1 < k2 and k1 <= k2.
KeyLess(k1, k2) ==
  \/ k1[1] < k2[1]
  \/ k1[1] = k2[1] /\ k1[2] < k2[2]
  \/ k1[1] = k2[1] /\ k1[2] = k2[2] /\ k1[3] < k2[3]

KeyLeq(k1, k2) == ~KeyLess(k2, k1)

\* A faulty variant of Insert: the element goes before the elements of equal key.
RECURSIVE InsertBeforeEqual(_, _)
InsertBeforeEqual(x, s) ==
  IF s = <<>> THEN <<x>>
  ELSE IF KeyLess(sort_key(Head(s)), sort_key(x))
       THEN <<Head(s)>> \o InsertBeforeEqual(x, Tail(s))
       ELSE <<x>> \o s

\* One step of the stable sort: x goes after every element whose key is not
\* greater than its own.
RECURSIVE Insert(_, _)
Insert(x, s) ==
  IF s = <<>> THEN <<x>>
  ELSE IF KeyLeq(sort_key(Head(s)), sort_key(x))
       THEN <<Head(s)>> \o Insert(x, Tail(s))
       ELSE <<x>> \o s

\* A faulty variant of Sorted: the list is built from its end, so elements of
\* equal key come out in reverse order.
RECURSIVE SortedFromEnd(_)
SortedFromEnd(products) ==
  IF products = <<>> THEN <<>>
  ELSE Insert(Head(products), SortedFromEnd(Tail(products)))

\* sorted(products, key=sort_key) when no key raises: a stable sort.
RECURSIVE Sorted(_)
Sorted(products) ==
  IF products = <<>> THEN <<>>
  ELSE Insert(products[Len(products)],
              Sorted(SubSeq(products, 1, Len(products) - 1)))

\* sorted_products[:limit], for limit >= 0.
Truncate(s, limit) == SubSeq(s, 1, Min(limit, Len(s)))

\* A faulty variant of SelectTopProducts: the list is cut before it is sorted.
SelectTruncateFirst(products, limit) ==
  IF \E i \in 1..Len(products) : SortKeyRaises(products[i])
  THEN [raised |-> "ValueError", out |-> <<>>]
  ELSE [raised |-> "none", out |-> Sorted(Truncate(products, limit))]

\* select_top_products(products, limit): the sort evaluates every key first
\* (a ValueError of float() leaves it), the logging loop subscripts the title
\* of every selected product (a TypeError on None).
SelectTopProducts(products, limit) ==
  IF \E i \in 1..Len(products) : SortKeyRaises(products[i])
  THEN [raised |-> "ValueError", out |-> <<>>]
  ELSE LET top_products == Truncate(Sorted(products), limit)
       IN IF \E i \in 1..Len(top_products) : top_products[i].title = NoTitle
          THEN [raised |-> "TypeError", out |-> <<>>]
          ELSE [raised |-> "none", out |-> top_products]

\* ------------------------------------------------- the filter step of run()
\* passes_rating / passes_reviews: `m is None or (x and x >= m)`, then taken
\* for its truth value by `if passes_rating and passes_reviews`.
Passes(x, m) == m = NoneInt \/ (Truthy(x) /\ x >= m)

\* product.get(key) of a key holding a string: None when the key is absent.
GetStr(product, key) ==
  IF product[key] = AbsentKey THEN NoneStr ELSE product[key]

\* A faulty variant of Projected: the raw record itself is kept.
ProjectedWhole(product) == product

\* The projection stored in filtered_products, the eight keys of
\* filtered_product and no other: product.get(key) turns an absent link or
\* price into None.
Projected(product) ==
  [asin |-> product.asin,
   title |-> GetStr(product, "title"),
   link |-> GetStr(product, "link"),
   link_clean |-> GetStr(product, "link_clean"),
   thumbnail |-> GetStr(product, "thumbnail"),
   rating |-> product.rating,
   reviews |-> product.reviews,
   price |-> IF product.price.kind = "absent" THEN NonePrice
             ELSE product.price]

\* A faulty variant of FilterLoop: no check against seen_asins.
RECURSIVE FilterNoSeen(_, _, _, _, _)
FilterNoSeen(raw, min_rating, min_reviews, acc, seen_asins) ==
  IF raw = <<>> THEN acc
  ELSE LET product == Head(raw)
       IN IF Passes(product.rating, min_rating)
             /\ Passes(product.reviews, min_reviews)
          THEN FilterNoSeen(Tail(raw), min_rating, min_reviews,
                            Append(acc, Projected(product)), seen_asins)
          ELSE FilterNoSeen(Tail(raw), min_rating, min_reviews, acc, seen_asins)

\* for product in raw_results: ... ; acc is filtered_products so far.  An asin
\* enters seen_asins only when its record is appended.
RECURSIVE FilterLoop(_, _, _, _, _)
FilterLoop(raw, min_rating, min_reviews, acc, seen_asins) ==
  IF raw = <<>> THEN acc
  ELSE LET product == Head(raw)
       IN IF product.asin \in seen_asins
          THEN FilterLoop(Tail(raw), min_rating, min_reviews, acc, seen_asins)
          ELSE IF Passes(product.rating, min_rating)
                  /\ Passes(product.reviews, min_reviews)
               THEN FilterLoop(Tail(raw), min_rating, min_reviews,
                               Append(acc, Projected(product)),
                               seen_asins \cup {product.asin})
               ELSE FilterLoop(Tail(raw), min_rating, min_reviews, acc, seen_asins)

FilterProducts(raw, min_rating, min_reviews) ==
  FilterLoop(raw, min_rating, min_reviews, <<>>, {})

\* ------------------------------------------- the report's analysis parser
\* An analysis text is a sequence of tokens: single characters, the line
\* break, and whole phrases (the section markers, the bold marker, the
\* 'no findings' phrases) that the parser only ever treats as a unit.
Newline == "\n"

ConcernsMarker == "**Product Concerns:**"

StrengthsHeader == "**Product Strengths:**"

Bold == "**"

\* The characters str.strip() removes, among those of the modelled texts.
Whitespace == {" ", Newline}

\* The characters of line.lstrip('0123456789.-) ').
EnumChars == Digits \cup {".", "-", ")", " "}

\* str.lstrip(chars), str.rstrip(chars), str.strip().
RECURSIVE LStrip(_, _)
LStrip(ts, chars) ==
  IF ts # <<>> /\ Head(ts) \in chars THEN LStrip(Tail(ts), chars) ELSE ts

RECURSIVE RStrip(_, _)
RStrip(ts, chars) ==
  IF ts # <<>> /\ ts[Len(ts)] \in chars
  THEN RStrip(SubSeq(ts, 1, Len(ts) - 1), chars)
  ELSE ts

Strip(ts) == RStrip(LStrip(ts, Whitespace), Whitespace)

\* A faulty variant of SplitOn: there are always two sections, the second
\* one empty.
SplitPadded(ts, sep) == <<ts, <<>>>>

\* str.split(sep): the pieces between the occurrences of sep, one piece when
\* there is none.
RECURSIVE SplitOn(_, _)
SplitOn(ts, sep) ==
  IF \E k \in 1..Len(ts) : ts[k] = sep
  THEN LET k == CHOOSE k \in 1..Len(ts) :
                  ts[k] = sep /\ \A j \in 1..(k - 1) : ts[j] # sep
       IN <<SubSeq(ts, 1, k - 1)>> \o SplitOn(SubSeq(ts, k + 1, Len(ts)), sep)
  ELSE <<ts>>

\* str.replace(old, '').
RECURSIVE Removed(_, _)
Removed(ts, old) ==
  IF ts = <<>> THEN <<>>
  ELSE IF Head(ts) = old THEN Removed(Tail(ts), old)
       ELSE <<Head(ts)>> \o Removed(Tail(ts), old)

\* re.sub(r'\*\*(.*?)\*\*', r'<strong>\1</strong>', text) on one line: each
\* bold marker is paired with the next one.
RECURSIVE markdown_to_html(_)
markdown_to_html(ts) ==
  IF ts = <<>> THEN <<>>
  ELSE IF Head(ts) = Bold /\ \E k \in 2..Len(ts) : ts[k] = Bold
       THEN LET k == CHOOSE k \in 2..Len(ts) :
                       ts[k] = Bold /\ \A j \in 2..(k - 1) : ts[j] # Bold
            IN <<"<strong>">> \o SubSeq(ts, 2, k - 1) \o <<"</strong>">>
                 \o markdown_to_html(SubSeq(ts, k + 1, Len(ts)))
       ELSE <<Head(ts)>> \o markdown_to_html(Tail(ts))

\* placeholder_patterns of _is_placeholder_text.
PlaceholderPatterns ==
  { "no common concerns identified", "no concerns identified",
    "no specific concerns", "no major concerns",
    "no common strengths identified", "no strengths identified",
    "no specific strengths" }

\* str.lower() of a token, for the phrases of the modelled texts.
Lower(t) ==
  CASE t = "No concerns identified" -> "no concerns identified"
    [] t = "NO STRENGTHS IDENTIFIED" -> "no strengths identified"
    [] OTHER -> t

\* A faulty variant of is_placeholder_text: no text is a placeholder.
NeverPlaceholder(ts) == FALSE

\* any(pattern in text_lower for pattern in placeholder_patterns)
is_placeholder_text(ts) ==
  \E k \in 1..Len(ts) : Lower(ts[k]) \in PlaceholderPatterns

\* `line and (line[0].isdigit() or line.startswith('-'))`
IsListLine(line) == line # <<>> /\ (line[1] \in Digits \/ line[1] = "-")

\* The loop over the lines of one section; acc is the list built so far,
\* which holds the same items as the seen set.
RECURSIVE ParseLines(_, _)
ParseLines(lines, acc) ==
  IF lines = <<>> THEN acc
  ELSE LET line == Strip(Head(lines))
           cleaned == Strip(LStrip(line, EnumChars))
           html_text == markdown_to_html(cleaned)
       IN IF /\ IsListLine(line)
             /\ cleaned # <<>>
             /\ html_text \notin Range(acc)
             /\ ~is_placeholder_text(html_text)
          THEN ParseLines(Tail(lines), Append(acc, html_text))
          ELSE ParseLines(Tail(lines), acc)

\* _parse_analysis_text(analysis_text)
parse_analysis_text(analysis_text) ==
  IF analysis_text = <<>>
  THEN [raised |-> "none", strengths |-> <<>>, concerns |-> <<>>]
  ELSE LET sections == SplitOn(analysis_text, ConcernsMarker)
       IN IF Len(sections) >= 2
          THEN [raised |-> "none",
                strengths |->
                  ParseLines(SplitOn(Strip(Removed(sections[1], StrengthsHeader)),
                                     Newline), <<>>),
                concerns |->
                  ParseLines(SplitOn(Strip(sections[2]), Newline), <<>>)]
          ELSE [raised |-> "none", strengths |-> <<>>, concerns |-> <<>>]

\* ------------------------------------------------------------------ state
VARIABLES
  pc,                 \* where run() stands
  min_rating,         \* client_filters.min_rating, NoneInt when unset
  min_reviews,        \* client_filters.min_reviews, NoneInt when unset
  raw_results,        \* what search_products_paginated returned
  filtered_products,  \* the filter loop's list
  top_products,       \* the shortlist
  run_error,          \* the exception that left run(), "none" if none
  files,              \* the artifacts written into the run folder
  detail_tasks,       \* collect_product_data: product_tasks, one per entry
  detail_order,       \* the positions of product_tasks in completion order
  product_data_results, \* collect_product_data: what gather returned
  review_inflight,    \* position of the entry whose reviews are being fetched, 0 if none
  review_issued,      \* the asins review fetches were issued for, in order
  review_results,     \* collect_product_data: review_results
  product_data_list,  \* run(): the detail records collect_product_data returned
  reviews_list,       \* run(): the review sets collect_product_data returned
  analysis_tasks,     \* analyze_all_products: analysis_tasks, one per entry
  analysis_order,     \* the positions of analysis_tasks in completion order
  analyses,           \* run(): what analyze_all_products returned
  report,             \* whether the HTML report was generated
  credentials,        \* the providers whose credential is set in the environment
  calls,              \* the calls made to the external providers, in order
  sel_pc,             \* direct calls of select_top_products: where they stand
  sel_products,       \* the list handed to select_top_products
  sel_limit,          \* the limit handed to select_top_products
  sel_result,         \* what the call gave
  sel_again,          \* what the call on its own output gave
  parse_pc,           \* direct calls of _parse_analysis_text: where they stand
  parse_text,         \* the analysis text handed to _parse_analysis_text
  parse_result,       \* what the call gave
  parse_strengths_in, \* the strength items a sectioned text was written from
  parse_concerns_in,  \* the concern items a sectioned text was written from
  regen_pc,           \* regenerate_html: where it stands
  regen_products,     \* regenerate_html: serp_filtered.json as loaded
  regen_all_reviews,  \* regenerate_html: reviews.json as loaded
  regen_reviews_list, \* regenerate_html: the review sets handed to generate()
  regen_analyses_file, \* regenerate_html: gemini_analysis.json as loaded
  regen_cards,        \* generate(): the entry and the analysis of each card
  srch_pc,            \* search_products_paginated: where it stands
  srch_pages,         \* search_products_paginated: the argument pages
  srch_page_num,      \* search_products_paginated: page_num of the loop
  srch_requests,      \* the page numbers requested, in order
  srch_responses,     \* the responses to those requests, in order
  srch_all_products,  \* search_products_paginated: all_products
  srch_sleeps,        \* the page numbers after which time.sleep(delay) ran
  srch_run,           \* what run() did with the result of the search
  req_pc,             \* building one analysis request: where it stands
  req_product,        \* the shortlist entry the request is built for
  req_product_data,   \* the detail record the request is built from
  req_title,          \* the title handed to analyze_with_gemini_async
  req_description,    \* the description handed to analyze_with_gemini_async
  wait_pc,            \* wait_for_completion: where it stands
  wait_max_wait,      \* wait_for_completion: the argument max_wait, in seconds
  wait_interval,      \* wait_for_completion: the argument check_interval, in seconds
  wait_elapsed,       \* time.time() - start_time, in seconds
  wait_statuses,      \* the run statuses the polls observed, in order
  wait_sleeps,        \* the polls after which time.sleep(check_interval) ran
  wait_result,        \* what wait_for_completion returned
  snap_pc,            \* get_snapshot_data: where it stands
  snap_max_wait,      \* get_snapshot_data: the argument max_wait, in seconds
  snap_interval,      \* get_snapshot_data: the argument check_interval, in seconds
  snap_elapsed,       \* time.time() - start_time, in seconds
  snap_responses,     \* the answers to the polls of the snapshot, in order
  snap_sleeps,        \* the polls after which time.sleep(check_interval) ran
  snap_result,        \* what get_snapshot_data returned
  pers_pc,            \* the reviews of a run: where run() stands with them
  pers_top,           \* the shortlist of the run
  pers_returned,      \* the review sets as the review provider returned them
  pers_reviews_list,  \* run(): reviews_list, one list of review dictionaries per entry
  pers_all_reviews,   \* reviews.json as written
  pers_handed,        \* the review sets handed to the analysis provider
  pers_regrouped,     \* the review sets regenerate_html rebuilds from reviews.json
  failing_writes      \* the files of the run folder whose write fails inside save_to_json

rankVars == <<pc, min_rating, min_reviews, raw_results, filtered_products,
              top_products, run_error>>

stageVars == <<files, detail_tasks, detail_order, product_data_results,
               review_inflight, review_issued, review_results,
               product_data_list, reviews_list, analysis_tasks,
               analysis_order, analyses, report, credentials, calls>>

selVars == <<sel_pc, sel_products, sel_limit, sel_result, sel_again>>

parseVars == <<parse_pc, parse_text, parse_result, parse_strengths_in,
               parse_concerns_in>>

regenVars == <<regen_pc, regen_products, regen_all_reviews, regen_reviews_list,
               regen_analyses_file, regen_cards>>

searchVars == <<srch_pc, srch_pages, srch_page_num, srch_requests,
                srch_responses, srch_all_products, srch_sleeps, srch_run>>

reqVars == <<req_pc, req_product, req_product_data, req_title, req_description>>

waitVars == <<wait_pc, wait_max_wait, wait_interval, wait_elapsed,
              wait_statuses, wait_sleeps, wait_result>>

snapVars == <<snap_pc, snap_max_wait, snap_interval, snap_elapsed,
              snap_responses, snap_sleeps, snap_result>>

persistVars == <<pers_pc, pers_top, pers_returned, pers_reviews_list,
                 pers_all_reviews, pers_handed, pers_regrouped>>

diskVars == <<failing_writes>>

auxVars == <<waitVars, snapVars, persistVars, diskVars>>

toolVars == <<regenVars, searchVars, reqVars, auxVars>>

vars == <<rankVars, stageVars, selVars, parseVars, toolVars>>

NoResult == [raised |-> "none", out |-> <<>>]

\* No dictionary yet.
NoRecord == [none |-> TRUE]

\* What _parse_analysis_text gives on a text with nothing to list.
NoParse == [raised |-> "none", strengths |-> <<>>, concerns |-> <<>>]

\* A faulty variant of Err: the exception is lost.
ErrNone(kind, entry) == [kind |-> "none", entry |-> 0]

\* The exception that leaves run(): its kind and, for a stage failure, the
\* position of the shortlist entry whose call raised it.
Err(kind, entry) == [kind |-> kind, entry |-> entry]

NoError == Err("none", 0)

\* ----------------------------------------------------------------- inputs
Asins == <<"A", "B", "C", "D", "E">>

Thresholds == {NoneInt, 0, 4}

ReviewThresholds == {NoneInt, 0}

\* Raw search records of the filter step: two identifiers, so that
\* duplicates occur; rating and reviews absent, zero or positive.
RawCandidates ==
  {Product(a, "t", r, v, StrPrice(<<"$", "2">>)) :
     a \in {"A", "B"}, r \in {NoneInt, 0, 4}, v \in {NoneInt, 0, 7}}

\* Prices of the lists handed to select_top_products: no key, None, a
\* string with no digit, "$2", "$1.5", a range "1.5-2.5" and the number 3.
Prices ==
  { AbsentPrice, NonePrice,
    StrPrice(<<"N", "/", "A">>),
    StrPrice(<<"$", "2">>),
    StrPrice(<<"$", "1", ".", "5">>),
    StrPrice(<<"1", ".", "5", "-", "2", ".", "5">>),
    NumPrice(3 * PriceScale) }

\* Attributes of the products handed to select_top_products: every rating
\* and review count with three prices, and every price at one rating and
\* review count.
Attributes ==
  [rating : {NoneInt, 4}, reviews : {NoneInt, 7},
   price : {NonePrice, StrPrice(<<"$", "2">>), StrPrice(<<"$", "1", ".", "5">>)}]

PriceAttributes == [rating : {4}, reviews : {7}, price : Prices]

SelectInputs ==
  SeqsUpTo(Attributes, MaxProducts) \cup SeqsUpTo(PriceAttributes, MaxProducts)

\* A list of products with the given attributes, the i-th identified by the
\* i-th identifier.
Listed(attrs) ==
  [i \in 1..Len(attrs) |->
     Product(Asins[i], "t", attrs[i].rating, attrs[i].reviews, attrs[i].price)]

\* ---------------------------------------------------------------- actions
\* The external providers; each handler's constructor reads one credential
\* from the environment and raises ValueError when it is not set.
Providers == {"search", "detail", "review", "analysis"}

\* The environments of the modelled runs: every credential set, or exactly
\* one of them missing.
CredentialSets == {Providers} \cup {Providers \ {p} : p \in Providers}

\* A call to a provider: for the shortlist entry at a position, 0 for the
\* search.
Call(provider, entry) == [provider |-> provider, entry |-> entry]

\* A faulty variant of Empty: an empty list is not noticed.
NeverEmpty(s) == FALSE

\* `not raw_results`, `not filtered_products`: an empty list.
Empty(s) == s = <<>>

\* No direct call of select_top_products made.
InitSel ==
  /\ sel_pc = "start"
  /\ sel_products = <<>>
  /\ sel_limit = 0
  /\ sel_result = NoResult
  /\ sel_again = NoResult

\* No direct call of _parse_analysis_text made.
InitParse ==
  /\ parse_pc = "start"
  /\ parse_text = <<>>
  /\ parse_result = NoParse
  /\ parse_strengths_in = <<>>
  /\ parse_concerns_in = <<>>

\* regenerate_html not called.
InitRegen ==
  /\ regen_pc = "start"
  /\ regen_products = <<>>
  /\ regen_all_reviews = <<>>
  /\ regen_reviews_list = <<>>
  /\ regen_analyses_file = <<>>
  /\ regen_cards = <<>>

\* search_products_paginated not called.
InitSearch ==
  /\ srch_pc = "start"
  /\ srch_pages = 0
  /\ srch_page_num = 0
  /\ srch_requests = <<>>
  /\ srch_responses = <<>>
  /\ srch_all_products = <<>>
  /\ srch_sleeps = <<>>
  /\ srch_run = "pending"

\* No analysis request built on its own.
InitReq ==
  /\ req_pc = "start"
  /\ req_product = NoRecord
  /\ req_product_data = NoRecord
  /\ req_title = ""
  /\ req_description = <<>>

\* wait_for_completion not called.
InitWait ==
  /\ wait_pc = "start"
  /\ wait_max_wait = 0
  /\ wait_interval = 0
  /\ wait_elapsed = 0
  /\ wait_statuses = <<>>
  /\ wait_sleeps = <<>>
  /\ wait_result = FALSE

\* get_snapshot_data not called.
InitSnap ==
  /\ snap_pc = "start"
  /\ snap_max_wait = 0
  /\ snap_interval = 0
  /\ snap_elapsed = 0
  /\ snap_responses = <<>>
  /\ snap_sleeps = <<>>
  /\ snap_result = <<>>

\* No review fetched.
InitPersist ==
  /\ pers_pc = "start"
  /\ pers_top = <<>>
  /\ pers_returned = <<>>
  /\ pers_reviews_list = <<>>
  /\ pers_all_reviews = <<>>
  /\ pers_handed = <<>>
  /\ pers_regrouped = <<>>

\* Every write into the run folder succeeds.
InitDisk ==
  /\ failing_writes = {}

InitTools == InitRegen /\ InitSearch /\ InitReq /\ InitWait /\ InitSnap /\ InitPersist

\* run() not entered: nothing fetched, nothing written.
InitRun ==
  /\ pc = "start"
  /\ raw_results = <<>>
  /\ filtered_products = <<>>
  /\ top_products = <<>>
  /\ run_error = NoError
  /\ files = {}
  /\ detail_tasks = <<>>
  /\ detail_order = <<>>
  /\ product_data_results = <<>>
  /\ review_inflight = 0
  /\ review_issued = <<>>
  /\ review_results = <<>>
  /\ product_data_list = <<>>
  /\ reviews_list = <<>>
  /\ analysis_tasks = <<>>
  /\ analysis_order = <<>>
  /\ analyses = <<>>
  /\ report = FALSE
  /\ calls = <<>>

InitRank ==
  /\ min_rating = NoneInt
  /\ min_reviews = NoneInt
  /\ credentials = Providers
  /\ InitRun
  /\ InitSel
  /\ InitParse
  /\ InitTools
  /\ InitDisk

\* A faulty variant of SaveRaises: the exception of a failed write leaves
\* save_to_json.
SaveRaisesOnFailure(names) == names \cap failing_writes # {}

\* Whether save_to_json raises for one of the names: open and json.dump
\* are inside try, and `except Exception` logs the error and returns.
SaveRaises(names) == FALSE

\* save_to_json(..., run_folder / name) for each of the names (and the
\* report, which generate() writes): the files completely written
\* afterwards.
Persisted(fs, names) == fs \cup (names \ failing_writes)

\* The filter and rank step of run() on raw results: the filter loop, the
\* early return on no survivor, select_top_products(filtered, limit=10),
\* and how the step ends once the shortlist is handed to save_to_json.
FilterRankOf(raw, mr, mv) ==
  LET filtered == FilterProducts(raw, mr, mv)
      sel == SelectTopProducts(filtered, RunLimit)
  IN /\ filtered_products' = filtered
     /\ IF Empty(filtered)
        THEN /\ pc' = "returned"
             /\ top_products' = <<>>
             /\ run_error' = NoError
        ELSE IF sel.raised # "none"
             THEN /\ pc' = "failed"
                  /\ top_products' = <<>>
                  /\ run_error' = Err(sel.raised, 0)
             ELSE /\ top_products' = sel.out
                  /\ pc' = IF SaveRaises({"serp_filtered.json"})
                           THEN "failed" ELSE "shortlisted"
                  /\ run_error' = IF SaveRaises({"serp_filtered.json"})
                                  THEN Err("save", 0) ELSE NoError

\* run()'s filter and rank step, on drawn raw results and thresholds.
RankStep ==
  /\ pc = "start"
  /\ sel_pc = "start"
  /\ \E raw \in SeqsUpTo(RawCandidates, MaxRaw) \ {<<>>},
        mr \in Thresholds, mv \in ReviewThresholds :
       /\ raw_results' = raw
       /\ min_rating' = mr
       /\ min_reviews' = mv
       /\ FilterRankOf(raw, mr, mv)
  /\ UNCHANGED <<stageVars, selVars, parseVars, toolVars>>

\* A direct call select_top_products(products, limit).
CallSelect ==
  /\ pc = "start"
  /\ sel_pc = "start"
  /\ \E attrs \in SelectInputs, limit \in 0..MaxLimit :
       /\ sel_products' = Listed(attrs)
       /\ sel_limit' = limit
       /\ sel_result' = SelectTopProducts(Listed(attrs), limit)
  /\ sel_pc' = "selected"
  /\ UNCHANGED <<sel_again, rankVars, stageVars, parseVars, toolVars>>

\* select_top_products on its own output, with the same limit.
CallSelectAgain ==
  /\ sel_pc = "selected"
  /\ sel_result.raised = "none"
  /\ sel_again' = SelectTopProducts(sel_result.out, sel_limit)
  /\ sel_pc' = "reselected"
  /\ UNCHANGED <<sel_products, sel_limit, sel_result, rankVars, stageVars,
                 parseVars, toolVars>>

NextRank == RankStep \/ CallSelect \/ CallSelectAgain

SpecRank == InitRank /\ [][NextRank]_vars

\* ==================================================== the staged run
\* Raw search records of a modelled run: two that pass every filter (one
\* of them without a clean link), one with no rating, one whose price is a
\* range, one with no title.
RunCandidates ==
  { SearchRecord(Product("A", "t", 4, 7, StrPrice(<<"$", "2">>)), "clean"),
    SearchRecord(Product("B", "t", 4, 7, StrPrice(<<"$", "1", ".", "5">>)),
                 AbsentKey),
    SearchRecord(Product("C", "t", NoneInt, 7, StrPrice(<<"$", "2">>)), "clean"),
    SearchRecord(Product("B", "t", 4, 7,
                         StrPrice(<<"1", ".", "5", "-", "2", ".", "5">>)),
                 "clean"),
    SearchRecord(Product("C", NoTitle, 4, 7, StrPrice(<<"$", "2">>)), "clean") }

RunThresholds == {NoneInt, 4}

\* What a provider call can end with: a result, the provider's failure value
\* ({} of get_product_data, [] of get_product_reviews, None of
\* analyze_reviews), or an exception out of the awaited wrapper.
DetailOutcomes == {"data", "failure_value", "raised"}

ReviewOutcomes == {"reviews", "failure_value", "raised"}

AnalysisOutcomes == {"analysis", "failure_value", "raised"}

\* The state after construction: the configuration is loaded, the
\* environment holds the credentials it holds.
Init ==
  /\ min_rating \in RunThresholds
  /\ min_reviews = NoneInt
  /\ credentials \in CredentialSets
  /\ InitRun
  /\ InitSel
  /\ InitParse
  /\ InitTools
  /\ InitDisk

\* What a finished call hands back: the asin it was made for and how it ended.
TaskResult(t) == [for |-> t.for, kind |-> t.state]

\* A faulty variant of AllDone: one finished call is enough.
AnyDone(tasks) == \E i \in 1..Len(tasks) : tasks[i].state # "pending"

AllDone(tasks) == \A i \in 1..Len(tasks) : tasks[i].state # "pending"

\* A faulty variant of Gather: the results in the order the calls completed.
GatherByCompletion(tasks, order) ==
  [k \in 1..Len(order) |-> TaskResult(tasks[order[k]])]

\* await asyncio.gather(*tasks, return_exceptions=True): the results in the
\* order of the tasks, whatever the order of completion.
Gather(tasks, order) == [i \in 1..Len(tasks) |-> TaskResult(tasks[i])]

\* A faulty variant of FirstException: no result is taken for an exception.
NoExceptionSeen(results) == 0

\* A faulty variant of FirstException: the exception highest in the list.
LastException(results) ==
  IF \E i \in 1..Len(results) : results[i].kind = "raised"
  THEN CHOOSE i \in 1..Len(results) :
         /\ results[i].kind = "raised"
         /\ \A j \in (i + 1)..Len(results) : results[j].kind # "raised"
  ELSE 0

\* for i, result in enumerate(results): if isinstance(result, Exception):
\* raise result.  The position of the first exception, 0 if there is none.
FirstException(results) ==
  IF \E i \in 1..Len(results) : results[i].kind = "raised"
  THEN CHOOSE i \in 1..Len(results) :
         /\ results[i].kind = "raised"
         /\ \A j \in 1..(i - 1) : results[j].kind # "raised"
  ELSE 0

\* A faulty variant of ReviewRaises: the exception is swallowed and the loop
\* goes on.
ReviewSwallowed(outcome) == FALSE

\* except Exception as e: ... raise e, around the awaited review fetch.
ReviewRaises(outcome) == outcome = "raised"

\* A faulty variant of NextEntry: the same entry is fetched again.
SameEntry(i) == i

\* for i, product in enumerate(products): the position after i.
NextEntry(i) == i + 1

\* run(): setup, AmazonScraper() and the search; an empty result returns
\* early, otherwise serp_raw.json is written.
Search ==
  /\ pc = "start"
  /\ IF "search" \notin credentials
     THEN /\ pc' = "failed"
          /\ run_error' = Err("credential", 0)
          /\ UNCHANGED <<raw_results, files, calls>>
     ELSE \E raw \in SeqsUpTo(RunCandidates, MaxRunRaw) :
            /\ raw_results' = raw
            /\ calls' = Append(calls, Call("search", 0))
            /\ pc' = IF Empty(raw) THEN "returned"
                     ELSE IF SaveRaises({"serp_raw.json"}) THEN "failed"
                     ELSE "searched"
            /\ files' = IF Empty(raw) THEN files
                        ELSE Persisted(files, {"serp_raw.json"})
            /\ run_error' = IF ~Empty(raw) /\ SaveRaises({"serp_raw.json"})
                            THEN Err("save", 0) ELSE run_error
  /\ UNCHANGED <<min_rating, min_reviews, filtered_products, top_products,
                 detail_tasks, detail_order, product_data_results,
                 review_inflight, review_issued, review_results,
                 product_data_list, reviews_list, analysis_tasks,
                 analysis_order, analyses, report, credentials, selVars,
                 parseVars, toolVars>>

\* run(): filter, select_top_products, serp_filtered.json.
FilterRank ==
  /\ pc = "searched"
  /\ FilterRankOf(raw_results, min_rating, min_reviews)
  /\ files' = IF top_products' # <<>>
              THEN Persisted(files, {"serp_filtered.json"}) ELSE files
  /\ UNCHANGED <<min_rating, min_reviews, raw_results, detail_tasks,
                 detail_order, product_data_results, review_inflight,
                 review_issued, review_results, product_data_list,
                 reviews_list, analysis_tasks, analysis_order, analyses,
                 report, credentials, calls, selVars, parseVars, toolVars>>

\* collect_product_data up to the gather: RainforestHandler() and
\* ApifyHandler() are constructed, then one detail fetch per shortlist entry
\* is issued, all together.
StartDetail ==
  /\ pc = "shortlisted"
  /\ IF {"detail", "review"} \subseteq credentials
     THEN /\ detail_tasks' =
               [i \in 1..Len(top_products) |->
                  [for |-> top_products[i].asin, state |-> "pending"]]
          /\ calls' = calls \o [i \in 1..Len(top_products) |-> Call("detail", i)]
          /\ pc' = "detail"
          /\ run_error' = run_error
     ELSE /\ pc' = "failed"
          /\ run_error' = Err("credential", 0)
          /\ UNCHANGED <<detail_tasks, calls>>
  /\ detail_order' = <<>>
  /\ UNCHANGED <<min_rating, min_reviews, raw_results, filtered_products,
                 top_products, files, product_data_results,
                 review_inflight, review_issued, review_results,
                 product_data_list, reviews_list, analysis_tasks,
                 analysis_order, analyses, report, credentials, selVars,
                 parseVars, toolVars>>

\* One detail fetch ends, in any order among those pending.
DetailReturn ==
  /\ pc = "detail"
  /\ \E i \in 1..Len(detail_tasks), outcome \in DetailOutcomes :
       /\ detail_tasks[i].state = "pending"
       /\ detail_tasks' = [detail_tasks EXCEPT ![i].state = outcome]
       /\ detail_order' = Append(detail_order, i)
  /\ UNCHANGED <<rankVars, files, product_data_results, review_inflight,
                 review_issued, review_results, product_data_list,
                 reviews_list, analysis_tasks, analysis_order, analyses,
                 report, credentials, calls, selVars, parseVars, toolVars>>

\* The gather returns once every detail fetch has ended; the first exception
\* among the results is raised, otherwise the review loop issues its first
\* fetch.
DetailGathered ==
  /\ pc = "detail"
  /\ AllDone(detail_tasks)
  /\ LET results == Gather(detail_tasks, detail_order)
         failed == FirstException(results)
     IN /\ product_data_results' = results
        /\ IF failed # 0
           THEN /\ pc' = "failed"
                /\ run_error' = Err("detail", failed)
                /\ UNCHANGED <<review_inflight, review_issued, calls>>
           ELSE /\ pc' = "reviews"
                /\ run_error' = run_error
                /\ review_inflight' = 1
                /\ review_issued' = <<top_products[1].asin>>
                /\ calls' = Append(calls, Call("review", 1))
  /\ UNCHANGED <<min_rating, min_reviews, raw_results, filtered_products,
                 top_products, files, detail_tasks, detail_order,
                 review_results, product_data_list, reviews_list,
                 analysis_tasks, analysis_order, analyses, report,
                 credentials, selVars, parseVars, toolVars>>

\* The analysis request of entry i: made for the entry, from the detail
\* record and the review set at the same position.
AnalysisTask(i, details, reviews) ==
  [for |-> top_products[i].asin, detail |-> details[i],
   reviews |-> reviews[i], state |-> "pending"]

\* The review fetch in flight ends.  An exception leaves the stage; otherwise
\* the result is appended and the next fetch is issued, or, after the last
\* entry, collect_product_data returns, run() writes rainforest_products.json
\* and reviews.json, and analyze_all_products constructs GeminiHandler() and
\* issues every analysis request.
ReviewReturn ==
  /\ pc = "reviews"
  /\ review_inflight > 0
  /\ \E outcome \in ReviewOutcomes :
       LET i == review_inflight
           appended == Append(review_results,
                              [for |-> top_products[i].asin, kind |-> outcome])
       IN IF ReviewRaises(outcome)
          THEN /\ pc' = "failed"
               /\ run_error' = Err("reviews", i)
               /\ review_inflight' = 0
               /\ UNCHANGED <<files, detail_order, review_issued,
                              review_results, product_data_list, reviews_list,
                              analysis_tasks, calls>>
          ELSE IF i < Len(top_products)
          THEN /\ review_results' = appended
               /\ review_inflight' = NextEntry(i)
               /\ review_issued' =
                    Append(review_issued, top_products[NextEntry(i)].asin)
               /\ calls' = Append(calls, Call("review", NextEntry(i)))
               /\ UNCHANGED <<pc, run_error, files, detail_order,
                              product_data_list, reviews_list, analysis_tasks>>
          ELSE /\ review_results' = appended
               /\ review_inflight' = 0
               /\ product_data_list' = product_data_results
               /\ reviews_list' = appended
               /\ files' = Persisted(files, {"rainforest_products.json",
                                             "reviews.json"})
               /\ detail_order' = <<>>
               /\ review_issued' = review_issued
               /\ IF SaveRaises({"rainforest_products.json", "reviews.json"})
                  THEN /\ pc' = "failed"
                       /\ run_error' = Err("save", 0)
                       /\ UNCHANGED <<analysis_tasks, calls>>
                  ELSE IF "analysis" \in credentials
                  THEN /\ analysis_tasks' =
                            [j \in 1..Len(top_products) |->
                               AnalysisTask(j, product_data_results, appended)]
                       /\ calls' = calls \o [j \in 1..Len(top_products) |->
                                               Call("analysis", j)]
                       /\ pc' = "analysis"
                       /\ run_error' = run_error
                  ELSE /\ pc' = "failed"
                       /\ run_error' = Err("credential", 0)
                       /\ UNCHANGED <<analysis_tasks, calls>>
  /\ UNCHANGED <<min_rating, min_reviews, raw_results, filtered_products,
                 top_products, detail_tasks, product_data_results,
                 analysis_order, analyses, report, credentials, selVars,
                 parseVars, toolVars>>

\* One analysis request ends, in any order among those pending.
AnalysisReturn ==
  /\ pc = "analysis"
  /\ \E i \in 1..Len(analysis_tasks), outcome \in AnalysisOutcomes :
       /\ analysis_tasks[i].state = "pending"
       /\ analysis_tasks' = [analysis_tasks EXCEPT ![i].state = outcome]
       /\ analysis_order' = Append(analysis_order, i)
  /\ UNCHANGED <<rankVars, files, detail_tasks, detail_order,
                 product_data_results, review_inflight, review_issued,
                 review_results, product_data_list, reviews_list, analyses,
                 report, credentials, calls, selVars, parseVars, toolVars>>

\* The gather returns once every analysis request has ended; the first
\* exception is raised, otherwise run() writes gemini_analysis.json, saves
\* every result again and generates the report.
AnalysisGathered ==
  /\ pc = "analysis"
  /\ AllDone(analysis_tasks)
  /\ LET results == Gather(analysis_tasks, analysis_order)
         failed == FirstException(results)
     IN IF failed # 0
        THEN /\ pc' = "failed"
             /\ run_error' = Err("analysis", failed)
             /\ UNCHANGED <<files, analyses, report>>
        ELSE IF SaveRaises({"gemini_analysis.json"})
        THEN /\ pc' = "failed"
             /\ run_error' = Err("save", 0)
             /\ analyses' = results
             /\ files' = Persisted(files, {"gemini_analysis.json"})
             /\ report' = report
        ELSE /\ pc' = "done"
             /\ run_error' = run_error
             /\ analyses' = results
             /\ files' = Persisted(files, {"gemini_analysis.json",
                                           "report.html"})
             /\ report' = TRUE
  /\ UNCHANGED <<min_rating, min_reviews, raw_results, filtered_products,
                 top_products, detail_tasks, detail_order,
                 product_data_results, review_inflight, review_issued,
                 review_results, product_data_list, reviews_list,
                 analysis_tasks, analysis_order, credentials, calls, selVars,
                 parseVars, toolVars>>

Next ==
  \/ Search
  \/ FilterRank
  \/ StartDetail
  \/ DetailReturn
  \/ DetailGathered
  \/ ReviewReturn
  \/ AnalysisReturn
  \/ AnalysisGathered

Spec == Init /\ [][Next]_vars

\* The files whose write fails in the runs with a failing disk: the raw
\* results alone, the reviews alone, or every file save_to_json writes.
WriteFailures ==
  { {"serp_raw.json"}, {"reviews.json"},
    {"serp_raw.json", "serp_filtered.json", "rainforest_products.json",
     "reviews.json", "gemini_analysis.json"} }

\* The state after construction of a run, every credential set, in which
\* some writes into the run folder fail.
InitFailingDisk ==
  /\ min_rating \in RunThresholds
  /\ min_reviews = NoneInt
  /\ credentials = Providers
  /\ InitRun
  /\ InitSel
  /\ InitParse
  /\ InitTools
  /\ failing_writes \in WriteFailures

SpecDisk == InitFailingDisk /\ [][Next]_vars

\* ==================================================== the parser alone
\* The lines of the modelled analysis texts: "1. a", "- b", the concerns
\* marker, the strengths header, "2. No concerns identified",
\* "1. NO STRENGTHS IDENTIFIED", and a line that names the concerns without
\* being the marker.
ParseLineSet ==
  { <<"1", ".", " ", "a">>,
    <<"-", " ", "b">>,
    <<ConcernsMarker>>,
    <<StrengthsHeader>>,
    <<"2", ".", " ", "No concerns identified">>,
    <<"1", ".", " ", "NO STRENGTHS IDENTIFIED">>,
    <<"-", " ", "Product Concerns:">> }

\* '\n'.join(lines)
RECURSIVE JoinLines(_)
JoinLines(lines) ==
  IF lines = <<>> THEN <<>>
  ELSE IF Len(lines) = 1 THEN lines[1]
       ELSE lines[1] \o <<Newline>> \o JoinLines(Tail(lines))

ParseTexts == {JoinLines(lines) : lines \in SeqsUpTo(ParseLineSet, MaxLines)}

\* A direct call _parse_analysis_text(analysis_text).
CallParse ==
  /\ parse_pc = "start"
  /\ \E text \in ParseTexts :
       /\ parse_text' = text
       /\ parse_result' = parse_analysis_text(text)
  /\ parse_pc' = "parsed"
  /\ UNCHANGED <<parse_strengths_in, parse_concerns_in, rankVars, stageVars,
                 selVars, toolVars>>

\* The item texts of the sectioned texts' strengths: "a", "b", "c", two
\* that begin with a digit, and a 'no findings' phrase in upper case.
StrengthBodies ==
  { <<"a">>, <<"b">>, <<"c">>,
    <<"3", " ", "h">>, <<"5", " ", "h">>,
    <<"NO STRENGTHS IDENTIFIED">> }

\* The item texts of the sectioned texts' concerns: "a", "b", "c", a 'no
\* findings' phrase, and a sentence that holds one.
ConcernBodies ==
  { <<"a">>, <<"b">>, <<"c">>,
    <<"No concerns identified">>,
    <<"a", " ", "No concerns identified">> }

\* The sequences of n pairwise different elements of S.
InjSeqs(S, n) ==
  {q \in [1..n -> S] : \A i, j \in 1..n : i # j => q[i] # q[j]}

InjSeqsUpTo(S, n) == UNION {InjSeqs(S, k) : k \in 1..n}

\* str(k), for k < 100.
NumberTokens(k) ==
  LET digit(d) == CHOOSE c \in Digits : DigitVal(c) = d
  IN IF k < 10 THEN <<digit(k)>> ELSE <<digit(k \div 10), digit(k % 10)>>

\* The numbered lines "1. <item>", "2. <item>", ..., each ended by a line
\* break.
RECURSIVE NumberedLines(_, _)
NumberedLines(bodies, k) ==
  IF k > Len(bodies) THEN <<>>
  ELSE NumberTokens(k) \o <<".", " ">> \o bodies[k] \o <<Newline>>
         \o NumberedLines(bodies, k + 1)

\* A text in the format the analysis prompt asks for: the strengths header,
\* the numbered strengths, the concerns marker, the numbered concerns.
SectionedText(strengths, concerns) ==
  <<StrengthsHeader, Newline>> \o NumberedLines(strengths, 1)
    \o <<Newline, ConcernsMarker, Newline>> \o NumberedLines(concerns, 1)

\* A direct call _parse_analysis_text(analysis_text) on a sectioned text.
CallParseSectioned ==
  /\ parse_pc = "start"
  /\ \E strengths \in InjSeqsUpTo(StrengthBodies, MaxItems),
        concerns \in InjSeqsUpTo(ConcernBodies, MaxItems) :
       /\ parse_strengths_in' = strengths
       /\ parse_concerns_in' = concerns
       /\ parse_text' = SectionedText(strengths, concerns)
       /\ parse_result' =
            parse_analysis_text(SectionedText(strengths, concerns))
  /\ parse_pc' = "parsed_sectioned"
  /\ UNCHANGED <<rankVars, stageVars, selVars, toolVars>>

NextParse == CallParse \/ CallParseSectioned

SpecParse == InitRank /\ [][NextParse]_vars

\* ============================================== regenerate_html(run_folder)
\* Identifiers of the persisted shortlist (serp_filtered.json).
RegenAsins == {"A", "B"}

\* Records of the persisted reviews.json: each tagged with an identifier by
\* save_results, the tag of an entry or of none of them.
PersistedReviews == [asin : RegenAsins \cup {"C"}, body : {"r1", "r2"}]

\* The persisted shortlists: entries with pairwise different identifiers.
PersistedProducts ==
  {[i \in 1..Len(s) |-> [asin |-> s[i]]] :
     s \in {<<>>} \cup InjSeqsUpTo(RegenAsins, MaxRegenProducts)}

\* A faulty variant of ReviewsFor: the record at the entry's position.
ReviewsByPosition(all_reviews, products, i) ==
  IF i <= Len(all_reviews) THEN <<all_reviews[i]>> ELSE <<>>

\* product_reviews of the i-th entry:
\* [r for r in all_reviews if r.get('asin') == asin].
ReviewsFor(all_reviews, products, i) ==
  LET HasAsin(r) == r.asin = products[i].asin
  IN SelectSeq(all_reviews, HasAsin)

\* The records of gemini_analysis.json as save_results writes them: one per
\* entry, the entry's identifier and its analysis.
AnalysesWithContext(products) ==
  [i \in 1..Len(products) |->
     [asin |-> products[i].asin, analysis |-> <<"analysis of", products[i].asin>>]]

\* The files a list of records can be read from: the records in any order.
FileOrders(records) ==
  {[i \in 1..Len(records) |-> records[f[i]]] :
     f \in Permutations(1..Len(records))}

\* analyses = [item['analysis'] for item in analyses_with_context].
Unwrapped(analyses_with_context) ==
  [i \in 1..Len(analyses_with_context) |-> analyses_with_context[i].analysis]

\* generate(): the card of the i-th entry is built from products[i] and
\* analyses[i].
Cards(products, unwrapped) ==
  [i \in 1..Len(products) |->
     [asin |-> products[i].asin, analysis |-> unwrapped[i]]]

\* The run folder exists: the files are loaded, the reviews are
\* restructured into one list per entry of the shortlist, the analyses are
\* taken out of their wrappers and the report is generated.
Regenerate ==
  /\ regen_pc = "start"
  /\ \E products \in PersistedProducts,
        all_reviews \in SeqsUpTo(PersistedReviews, MaxReviews) :
       \E analyses_with_context \in FileOrders(AnalysesWithContext(products)) :
         /\ regen_products' = products
         /\ regen_all_reviews' = all_reviews
         /\ regen_reviews_list' =
              [i \in 1..Len(products) |-> ReviewsFor(all_reviews, products, i)]
         /\ regen_analyses_file' = analyses_with_context
         /\ regen_cards' = Cards(products, Unwrapped(analyses_with_context))
  /\ regen_pc' = "generated"
  /\ UNCHANGED <<rankVars, stageVars, selVars, parseVars, searchVars, reqVars,
                 auxVars>>

\* The run folder does not exist: the function returns before any file is
\* loaded.
RegenerateNoFolder ==
  /\ regen_pc = "start"
  /\ regen_pc' = "no_folder"
  /\ UNCHANGED <<regen_products, regen_all_reviews, regen_reviews_list,
                 regen_analyses_file, regen_cards, rankVars, stageVars, selVars, parseVars, searchVars, reqVars,
                 auxVars>>

NextRegen == Regenerate \/ RegenerateNoFolder

SpecRegen == InitRank /\ [][NextRegen]_vars

\* ===================================== SerpHandler.search_products_paginated
\* What requests.get can end with for one page: an exception, a status
\* other than 200, or a JSON body with its 'products', its
\* 'organic_results' and its 'serpapi_pagination' (absent, without 'next',
\* or with the next page's address).
PageBodies ==
  [kind : {"ok"},
   products : {<<>>, <<"p1">>, <<"p1", "p2">>},
   organic_results : {<<>>, <<"o1">>},
   pagination : {"absent", "no_next", "next"}]

NoBody == [products |-> <<>>, organic_results |-> <<>>, pagination |-> "absent"]

PageResponses ==
  PageBodies \cup {[kind |-> k] @@ NoBody : k \in {"raised", "status"}}

\* products = data.get("products", []), and data.get("organic_results", [])
\* when that is empty.
PageProducts(data) ==
  IF data.products # <<>> THEN data.products ELSE data.organic_results

\* A faulty variant of Collected: a failed request discards what the
\* earlier pages brought.
CollectedOrNothing(all_products, response) ==
  IF response.kind # "ok" THEN <<>>
  ELSE all_products \o PageProducts(response)

\* all_products after the response to one request: extended with the
\* page's products; left as it is when the request fails (an exception, a
\* status other than 200) or the page has no product.
Collected(all_products, response) ==
  IF response.kind # "ok" THEN all_products
  ELSE all_products \o PageProducts(response)

\* A faulty variant of HasNext: every page is taken to have a successor.
AlwaysNext(data) == TRUE

\* pagination.get("next") of data.get("serpapi_pagination", {}), taken for
\* its truth value.
HasNext(data) == data.pagination = "next"

\* The call search_products_paginated(query, pages=pages): all_products is
\* empty and the loop over range(1, pages + 1) is entered.
StartSearch ==
  /\ srch_pc = "start"
  /\ \E pages \in 0..MaxPages : srch_pages' = pages
  /\ srch_page_num' = 1
  /\ srch_pc' = "loop"
  /\ UNCHANGED <<srch_requests, srch_responses, srch_all_products, srch_sleeps,
                 srch_run, rankVars, stageVars, selVars, parseVars, regenVars, reqVars,
                 auxVars>>

\* One pass of the loop body: the request for page_num, then a break (an
\* exception, a status other than 200, no products, no next page), or the
\* products are appended and, unless this was the last page, the delay is
\* slept before the next pass.
FetchPage ==
  /\ srch_pc = "loop"
  /\ srch_page_num <= srch_pages
  /\ srch_requests' = Append(srch_requests, srch_page_num)
  /\ \E response \in PageResponses :
       /\ srch_responses' = Append(srch_responses, response)
       /\ srch_all_products' = Collected(srch_all_products, response)
       /\ IF response.kind # "ok" \/ PageProducts(response) = <<>>
            THEN /\ srch_pc' = "break"
                 /\ UNCHANGED <<srch_page_num, srch_sleeps>>
            ELSE /\ IF ~HasNext(response)
                      THEN /\ srch_pc' = "break"
                           /\ UNCHANGED <<srch_page_num, srch_sleeps>>
                      ELSE /\ srch_pc' = "loop"
                           /\ srch_page_num' = srch_page_num + 1
                           /\ srch_sleeps' =
                                IF srch_page_num < srch_pages
                                  THEN Append(srch_sleeps, srch_page_num)
                                  ELSE srch_sleeps
  /\ UNCHANGED <<srch_pages, srch_run,
                 rankVars, stageVars, selVars, parseVars, regenVars, reqVars,
                 auxVars>>

\* The loop is left, by a break or because the range is exhausted, and
\* all_products is returned.
ReturnSearch ==
  /\ \/ srch_pc = "break"
     \/ srch_pc = "loop" /\ srch_page_num > srch_pages
  /\ srch_pc' = "returned"
  /\ UNCHANGED <<srch_pages, srch_page_num, srch_requests, srch_responses,
                 srch_all_products, srch_sleeps, srch_run,
                 rankVars, stageVars, selVars, parseVars, regenVars, reqVars,
                 auxVars>>

\* run() with what the search returned: `if not raw_results: return`,
\* otherwise the run goes on with these candidates.
RunAfterSearch ==
  /\ srch_pc = "returned"
  /\ srch_run = "pending"
  /\ srch_run' = IF Empty(srch_all_products) THEN "returned" ELSE "searched"
  /\ UNCHANGED <<srch_pc, srch_pages, srch_page_num, srch_requests,
                 srch_responses, srch_all_products, srch_sleeps,
                 rankVars, stageVars, selVars, parseVars, regenVars, reqVars,
                 auxVars>>

NextSearch == StartSearch \/ FetchPage \/ ReturnSearch \/ RunAfterSearch

SpecSearch == InitRank /\ [][NextSearch]_vars

\* ============================ the analysis request of analyze_all_products
\* A dictionary without the keys read here: the {} that
\* product_data_list[i].get('product', {}) falls back to.
NoBullets == [kind |-> "absent", items |-> <<>>, chars |-> ""]

EmptyDict == [title |-> AbsentKey, feature_bullets |-> NoBullets]

\* The values of 'feature_bullets': no key, a list of bullets, a string
\* (empty or not), None.
FeatureBullets ==
  {NoBullets, [kind |-> "none", items |-> <<>>, chars |-> ""]}
    \cup {[kind |-> "list", items |-> b, chars |-> ""] :
            b \in SeqsUpTo({"x", "y"}, MaxBullets)}
    \cup {[kind |-> "str", items |-> <<>>, chars |-> c] : c \in {"", "text"}}

\* The detail records of an entry: the failure value {} of get_product_data,
\* or data whose 'product' has a title, None for a title or no title, and
\* any feature bullets.
DetailRecords ==
  {[kind |-> "failure_value", product |-> EmptyDict]}
    \cup {[kind |-> "data", product |-> p] :
            p \in [title : {AbsentKey, NoneStr, "d"},
                   feature_bullets : FeatureBullets]}

\* The shortlist entries, as far as the request reads them: a title, None
\* for a title, or no title key.
RequestEntries == [title : {"t", "u", NoTitle, AbsentKey}]

\* rf_product = product_data_list[i].get('product', {}).
RfProduct(product_data) ==
  IF product_data.kind = "data" THEN product_data.product ELSE EmptyDict

\* A faulty variant of RequestTitle: the entry's title before the detail
\* record's.
RequestTitleEntryFirst(product, product_data) ==
  IF product.title # AbsentKey THEN product.title
  ELSE IF RfProduct(product_data).title # AbsentKey
    THEN RfProduct(product_data).title
  ELSE "Unknown Product"

\* title = rf_product.get('title', product.get('title', 'Unknown Product')).
RequestTitle(product, product_data) ==
  IF RfProduct(product_data).title # AbsentKey
    THEN RfProduct(product_data).title
  ELSE IF product.title # AbsentKey THEN product.title
  ELSE "Unknown Product"

\* "\n".join(f"- {bullet}" for bullet in feature_bullets), as the sequence
\* of its pieces: the empty string for no bullet.
RECURSIVE JoinedBullets(_)
JoinedBullets(bullets) ==
  IF bullets = <<>> THEN <<>>
  ELSE IF Len(bullets) = 1 THEN <<"- ", bullets[1]>>
  ELSE <<"- ", bullets[1], "\n">> \o JoinedBullets(Tail(bullets))

\* The description of the request: the joined bullets of a list (the
\* default of an absent key is the empty list); for any other value its
\* string, or "No description available" when it is falsy.
RequestDescription(product_data) ==
  LET feature_bullets == RfProduct(product_data).feature_bullets
  IN CASE feature_bullets.kind = "absent" -> JoinedBullets(<<>>)
       [] feature_bullets.kind = "list" -> JoinedBullets(feature_bullets.items)
       [] feature_bullets.kind = "str" /\ feature_bullets.chars # "" ->
            <<feature_bullets.chars>>
       [] OTHER -> <<"No description available">>

\* One pass of the loop that creates the analysis tasks: title and
\* description of the entry's request.
BuildRequest ==
  /\ req_pc = "start"
  /\ \E product \in RequestEntries, product_data \in DetailRecords :
       /\ req_product' = product
       /\ req_product_data' = product_data
       /\ req_title' = RequestTitle(product, product_data)
       /\ req_description' = RequestDescription(product_data)
  /\ req_pc' = "built"
  /\ UNCHANGED <<rankVars, stageVars, selVars, parseVars, regenVars, searchVars,
                 auxVars>>

NextRequest == BuildRequest

SpecRequest == InitRank /\ [][NextRequest]_vars

\* =========================================== ApifyHandler.wait_for_completion
\* What one poll can observe: no status data (get_run_status gave {}), one
\* of the statuses the loop names, or any other value of 'status'.
RunStatuses ==
  {"no_data", "SUCCEEDED", "FAILED", "ABORTED", "TIMED-OUT", "RUNNING",
   "READY", "OTHER"}

\* The seconds a status request can take.
PollTimes == {0, 1}

\* A faulty variant of RunFailed: only FAILED ends the wait.
FailedOnly(status) == status = "FAILED"

\* status in ["FAILED", "ABORTED", "TIMED-OUT"].
RunFailed(status) == status \in {"FAILED", "ABORTED", "TIMED-OUT"}

\* The call wait_for_completion(run_id, max_wait, check_interval):
\* start_time is taken.
StartWait ==
  /\ wait_pc = "start"
  /\ \E max_wait \in 0..MaxWait, check_interval \in 1..MaxInterval :
       /\ wait_max_wait' = max_wait
       /\ wait_interval' = check_interval
  /\ wait_pc' = "loop"
  /\ UNCHANGED <<wait_elapsed, wait_statuses, wait_sleeps, wait_result,
                 snapVars, persistVars, diskVars, rankVars,
                 stageVars, selVars, parseVars, regenVars,
                 searchVars, reqVars>>

\* One pass of the while loop: the status is requested; SUCCEEDED returns
\* True, a failed status returns False, and anything else (no status data,
\* RUNNING, READY, an unknown status) sleeps check_interval.
PollRun ==
  /\ wait_pc = "loop"
  /\ wait_elapsed < wait_max_wait
  /\ \E status \in RunStatuses, took \in PollTimes :
       /\ wait_statuses' =
            Append(wait_statuses, [status |-> status, at |-> wait_elapsed])
       /\ IF status # "no_data" /\ status = "SUCCEEDED"
            THEN /\ wait_result' = TRUE
                 /\ wait_pc' = "returned"
                 /\ wait_elapsed' = wait_elapsed + took
                 /\ UNCHANGED wait_sleeps
          ELSE IF status # "no_data" /\ RunFailed(status)
            THEN /\ wait_result' = FALSE
                 /\ wait_pc' = "returned"
                 /\ wait_elapsed' = wait_elapsed + took
                 /\ UNCHANGED wait_sleeps
          ELSE /\ wait_sleeps' = Append(wait_sleeps, Len(wait_statuses) + 1)
               /\ wait_elapsed' = wait_elapsed + took + wait_interval
               /\ UNCHANGED <<wait_pc, wait_result>>
  /\ UNCHANGED <<wait_max_wait, wait_interval,
                 snapVars, persistVars, diskVars, rankVars,
                 stageVars, selVars, parseVars, regenVars,
                 searchVars, reqVars>>

\* The loop condition fails: max_wait has elapsed and False is returned.
WaitTimeout ==
  /\ wait_pc = "loop"
  /\ wait_elapsed >= wait_max_wait
  /\ wait_result' = FALSE
  /\ wait_pc' = "returned"
  /\ UNCHANGED <<wait_max_wait, wait_interval, wait_elapsed, wait_statuses,
                 wait_sleeps,
                 snapVars, persistVars, diskVars, rankVars,
                 stageVars, selVars, parseVars, regenVars,
                 searchVars, reqVars>>

NextWait == StartWait \/ PollRun \/ WaitTimeout

\* The thread that runs wait_for_completion goes on running: a status
\* request returns, a sleep ends, and the next statement is executed.
SpecWait == InitRank /\ [][NextWait]_vars /\ WF_vars(NextWait)

\* ========================================= BrightDataHandler.get_snapshot_data
\* The answers to one poll of the snapshot: an exception out of
\* requests.get, status 200 with records, with an empty body or with a body
\* that does not parse, status 202, or any other status.
SnapshotResponses ==
  {"raised", "records", "empty_body", "unparsable", "not_ready", "error_status"}

\* The call get_snapshot_data(snapshot_id, max_wait, check_interval):
\* start_time is taken.
StartSnapshot ==
  /\ snap_pc = "start"
  /\ \E max_wait \in 0..MaxWait, check_interval \in 1..MaxInterval :
       /\ snap_max_wait' = max_wait
       /\ snap_interval' = check_interval
  /\ snap_pc' = "loop"
  /\ UNCHANGED <<snap_elapsed, snap_responses, snap_sleeps, snap_result,
                 waitVars, persistVars, diskVars, rankVars,
                 stageVars, selVars, parseVars, regenVars,
                 searchVars, reqVars>>

\* One pass of the while loop: the snapshot is requested.  Records are
\* parsed and returned; an exception, a body that does not parse or an
\* error status return []; status 202 sleeps check_interval and continues;
\* status 200 with no record falls out of the if and the loop goes round.
PollSnapshot ==
  /\ snap_pc = "loop"
  /\ snap_elapsed < snap_max_wait
  /\ Len(snap_responses) < MaxPolls
  /\ \E response \in SnapshotResponses, took \in PollTimes :
       /\ snap_responses' = Append(snap_responses, response)
       /\ CASE response = "records" ->
                 /\ snap_result' = <<"reviews">>
                 /\ snap_pc' = "returned"
                 /\ snap_elapsed' = snap_elapsed + took
                 /\ UNCHANGED snap_sleeps
            [] response \in {"raised", "unparsable", "error_status"} ->
                 /\ snap_result' = <<>>
                 /\ snap_pc' = "returned"
                 /\ snap_elapsed' = snap_elapsed + took
                 /\ UNCHANGED snap_sleeps
            [] response = "not_ready" ->
                 /\ snap_sleeps' = Append(snap_sleeps, Len(snap_responses) + 1)
                 /\ snap_elapsed' = snap_elapsed + took + snap_interval
                 /\ UNCHANGED <<snap_pc, snap_result>>
            [] response = "empty_body" ->
                 /\ snap_elapsed' = snap_elapsed + took
                 /\ UNCHANGED <<snap_pc, snap_result, snap_sleeps>>
  /\ UNCHANGED <<snap_max_wait, snap_interval,
                 waitVars, persistVars, diskVars, rankVars,
                 stageVars, selVars, parseVars, regenVars,
                 searchVars, reqVars>>

\* The loop condition fails: max_wait has elapsed and [] is returned.
SnapshotTimeout ==
  /\ snap_pc = "loop"
  /\ snap_elapsed >= snap_max_wait
  /\ snap_result' = <<>>
  /\ snap_pc' = "returned"
  /\ UNCHANGED <<snap_max_wait, snap_interval, snap_elapsed, snap_responses,
                 snap_sleeps,
                 waitVars, persistVars, diskVars, rankVars,
                 stageVars, selVars, parseVars, regenVars,
                 searchVars, reqVars>>

NextSnapshot == StartSnapshot \/ PollSnapshot \/ SnapshotTimeout

SpecSnapshot == InitRank /\ [][NextSnapshot]_vars

\* =================================== the reviews of a run and their file
\* A review dictionary as the provider's dataset gives it: a body, and
\* possibly an 'asin' of the provider's own; no 'product_title'.
ProviderReviews ==
  { [body |-> "r1", asin |-> AbsentKey, product_title |-> AbsentKey],
    [body |-> "r2", asin |-> AbsentKey, product_title |-> AbsentKey],
    [body |-> "r1", asin |-> "X", product_title |-> AbsentKey] }

\* The shortlists of the modelled runs: entries with pairwise different
\* identifiers.
PersistShortlists ==
  {[i \in 1..Len(s) |-> [asin |-> s[i], title |-> "t"]] :
     s \in InjSeqsUpTo(RegenAsins, MaxRegenProducts)}

\* A faulty variant of Tagged: the review is stored as it came.
Untagged(review, entry) == review

\* review['asin'] = top_products[i]['asin'];
\* review['product_title'] = top_products[i]['title'].
Tagged(review, entry) ==
  [review EXCEPT !.asin = entry.asin, !.product_title = entry.title]

\* The review sets after the tagging loop: the dictionaries are the ones in
\* reviews_list, written in place.
TaggedSets(sets, top) ==
  [i \in 1..Len(sets) |->
     [k \in 1..Len(sets[i]) |-> Tagged(sets[i][k], top[i])]]

\* all_reviews: the review sets appended one after the other.
RECURSIVE Flattened(_)
Flattened(sets) ==
  IF sets = <<>> THEN <<>> ELSE Head(sets) \o Flattened(Tail(sets))

\* collect_product_data returned: one review set per entry of the shortlist.
CollectReviews ==
  /\ pers_pc = "start"
  /\ \E top \in PersistShortlists :
       \E sets \in [1..Len(top) -> SeqsUpTo(ProviderReviews, MaxSetSize)] :
         /\ pers_top' = top
         /\ pers_returned' = sets
         /\ pers_reviews_list' = sets
  /\ pers_pc' = "collected"
  /\ UNCHANGED <<pers_all_reviews, pers_handed, pers_regrouped,
                 waitVars, snapVars, diskVars, rankVars, stageVars, selVars, parseVars,
                 regenVars, searchVars, reqVars>>

\* run(): every review dictionary of reviews_list is tagged with its
\* entry's identifier and title and appended to all_reviews, which is saved
\* as reviews.json.
PersistReviews ==
  /\ pers_pc = "collected"
  /\ pers_reviews_list' = TaggedSets(pers_reviews_list, pers_top)
  /\ pers_all_reviews' = Flattened(TaggedSets(pers_reviews_list, pers_top))
  /\ pers_pc' = "persisted"
  /\ UNCHANGED <<pers_top, pers_returned, pers_handed, pers_regrouped,
                 waitVars, snapVars, diskVars, rankVars, stageVars, selVars, parseVars,
                 regenVars, searchVars, reqVars>>

\* analyze_all_products(top_products, product_data_list, reviews_list):
\* reviews_list[i] is handed to the analysis of entry i.
HandToAnalysis ==
  /\ pers_pc = "persisted"
  /\ pers_handed' = pers_reviews_list
  /\ pers_pc' = "analysed"
  /\ UNCHANGED <<pers_top, pers_returned, pers_reviews_list, pers_all_reviews,
                 pers_regrouped,
                 waitVars, snapVars, diskVars, rankVars, stageVars, selVars, parseVars,
                 regenVars, searchVars, reqVars>>

\* regenerate_html on the run folder: the records of reviews.json are
\* regrouped by the identifier of each entry of the shortlist.
RegroupReviews ==
  /\ pers_pc = "analysed"
  /\ pers_regrouped' =
       [i \in 1..Len(pers_top) |-> ReviewsFor(pers_all_reviews, pers_top, i)]
  /\ pers_pc' = "regrouped"
  /\ UNCHANGED <<pers_top, pers_returned, pers_reviews_list, pers_all_reviews,
                 pers_handed,
                 waitVars, snapVars, diskVars, rankVars, stageVars, selVars, parseVars,
                 regenVars, searchVars, reqVars>>

NextPersist ==
  CollectReviews \/ PersistReviews \/ HandToAnalysis \/ RegroupReviews

SpecPersist == InitRank /\ [][NextPersist]_vars

\* ================================================================ claims
\* ------------------------------------------- vocabulary of the claims
NoDupAsin(s) == \A i, j \in 1..Len(s) : i # j => s[i].asin # s[j].asin

\* The rating and review count a missing value is counted as.
RatingOf(p) == IF p.rating = NoneInt THEN 0 ELSE p.rating

ReviewsOf(p) == IF p.reviews = NoneInt THEN 0 ELSE p.reviews

\* x may stand right before y: rating descending, then review count
\* descending, then price ascending.
RankedBefore(x, y) ==
  \/ RatingOf(x) > RatingOf(y)
  \/ RatingOf(x) = RatingOf(y) /\ ReviewsOf(x) > ReviewsOf(y)
  \/ /\ RatingOf(x) = RatingOf(y)
     /\ ReviewsOf(x) = ReviewsOf(y)
     /\ PriceKey(x) <= PriceKey(y)

Ordered(s) == \A i \in 1..(Len(s) - 1) : RankedBefore(s[i], s[i + 1])

SameRank(x, y) == RatingOf(x) = RatingOf(y) /\ ReviewsOf(x) = ReviewsOf(y)

\* The threshold rule as the specification words it: unset, or the value is
\* present and at least the threshold.
PassesAsSpecified(x, m) == m = NoneInt \/ (x # NoneInt /\ x >= m)

FirstIndexOf(raw, a) ==
  CHOOSE k \in 1..Len(raw) :
    raw[k].asin = a /\ \A j \in 1..(k - 1) : raw[j].asin # a

OnlyRecordOfItsAsin(raw, k) ==
  \A j \in 1..Len(raw) : j # k => raw[j].asin # raw[k].asin

Selected == sel_pc # "start" /\ sel_result.raised = "none"

\* C1: the shortlist of the filter step followed by select_top_products has
\* no two entries with the same asin and at most `limit` entries: at most 10
\* in run(), at most the limit handed over in a direct call.
C1_UniqueAndBounded ==
  /\ pc = "shortlisted" =>
       NoDupAsin(top_products) /\ Len(top_products) <= RunLimit
  /\ Selected =>
       NoDupAsin(sel_result.out) /\ Len(sel_result.out) <= sel_limit

\* C1's case: two records of one asin both pass the filter, beside a record
\* of another asin, and the shortlist is there.
C1_Witness ==
  /\ pc = "shortlisted"
  /\ Len(top_products) = 2
  /\ \E i, j \in 1..Len(raw_results) :
       /\ i < j
       /\ raw_results[i].asin = raw_results[j].asin
       /\ Passes(raw_results[i].rating, min_rating)
       /\ Passes(raw_results[i].reviews, min_reviews)
       /\ Passes(raw_results[j].rating, min_rating)
       /\ Passes(raw_results[j].reviews, min_reviews)

\* C2: a record enters the shortlist only if it is the first record of the
\* input carrying its asin, whether or not that first record passed the
\* filter.  Stated for the inputs that carry no rating and no review count
\* of 0, on which the threshold test is the specified one.
NoZeroValue(raw) ==
  \A k \in 1..Len(raw) : raw[k].rating # 0 /\ raw[k].reviews # 0

C2_FirstOccurrenceOnly ==
  pc = "shortlisted" /\ NoZeroValue(raw_results) =>
    \A i \in 1..Len(top_products) :
      top_products[i] =
        Projected(raw_results[FirstIndexOf(raw_results, top_products[i].asin)])

\* C3: the filter accepts a candidate if and only if each threshold is unset
\* or the candidate's value is present and at least the threshold (stated
\* for the records that are the only ones of their asin, which no
\* deduplication touches).
C3_FilterIff ==
  pc \in {"shortlisted", "returned"} =>
    \A k \in 1..Len(raw_results) :
      OnlyRecordOfItsAsin(raw_results, k) =>
        ( (\E i \in 1..Len(filtered_products) :
             filtered_products[i] = Projected(raw_results[k]))
          <=> ( /\ PassesAsSpecified(raw_results[k].rating, min_rating)
                /\ PassesAsSpecified(raw_results[k].reviews, min_reviews) ) )

\* C4: consecutive entries of select_top_products' output are ordered by
\* rating descending (missing as 0), then review count descending (missing
\* as 0), then parsed price ascending.
C4_Ordered ==
  /\ Selected => Ordered(sel_result.out)
  /\ pc = "shortlisted" => Ordered(top_products)

\* C4's case: a call whose two outputs stood in the opposite order in the
\* input, with equal rating and review count, and are put in order by price.
C4_Witness ==
  /\ sel_pc = "selected"
  /\ sel_result.raised = "none"
  /\ Len(sel_result.out) = 2
  /\ Len(sel_products) = 2
  /\ sel_result.out[1] = sel_products[2]
  /\ SameRank(sel_result.out[1], sel_result.out[2])
  /\ RatingOf(sel_result.out[1]) > 0
  /\ PriceKey(sel_result.out[1]) < PriceKey(sel_result.out[2])

\* C5: the output is the first min(limit, n) entries of the ranked list of
\* all n products: no product left out would rank strictly before one that
\* is in.
C5_TruncateAfterRank ==
  /\ Selected =>
       /\ Len(sel_result.out) = Min(sel_limit, Len(sel_products))
       /\ sel_result.out = SubSeq(Sorted(sel_products), 1, Len(sel_result.out))
       /\ Range(sel_result.out) \subseteq Range(sel_products)
       /\ \A s \in Range(sel_products) \ Range(sel_result.out),
             t \in Range(sel_result.out) : RankedBefore(t, s)
  /\ pc = "shortlisted" =>
       /\ Len(top_products) = Min(RunLimit, Len(filtered_products))
       /\ Range(top_products) = Range(filtered_products)

\* C5's case: more products than the limit, and a product beyond the first
\* `limit` of the input is selected.
C5_Witness ==
  /\ sel_pc = "selected"
  /\ sel_result.raised = "none"
  /\ sel_limit >= 1
  /\ Len(sel_products) > sel_limit
  /\ Range(sel_result.out) # Range(SubSeq(sel_products, 1, sel_limit))

\* C6: select_top_products returns a result and never raises, whatever the
\* price strings are.
C6_NeverRaises == sel_pc # "start" => sel_result.raised = "none"

\* C7: select_top_products on its own output, with the same limit, gives
\* that output again, in the same order.
C7_Idempotent == sel_pc = "reselected" => sel_again = sel_result

\* C7's case: the second call has run on an output that was cut to the
\* limit, was not in input order and holds two entries of equal key.
C7_Witness ==
  /\ sel_pc = "reselected"
  /\ Len(sel_products) > sel_limit
  /\ Len(sel_result.out) = 2
  /\ sel_result.out # SubSeq(sel_products, 1, 2)
  /\ sort_key(sel_result.out[1]) = sort_key(sel_result.out[2])

\* A stage's results line up with the shortlist: as many as there are
\* entries, the i-th being the result of the call made for entry i.
Aligned(results) ==
  /\ Len(results) = Len(top_products)
  /\ \A i \in 1..Len(results) : results[i].for = top_products[i].asin

DetailRaised ==
  \E i \in 1..Len(detail_tasks) : detail_tasks[i].state = "raised"

HasFailureValue(results) ==
  \E i \in 1..Len(results) : results[i].kind = "failure_value"

\* C8: whatever the order in which the calls of a stage complete, a stage
\* that succeeded returned one result per shortlist entry, the i-th being
\* the result of the call made for entry i (detail, review, analysis).
C8_PositionalResults ==
  /\ ( \/ pc \in {"reviews", "analysis", "done"}
       \/ pc = "failed" /\ run_error.kind \in {"reviews", "analysis"} )
     => Aligned(product_data_results)
  /\ pc \in {"analysis", "done"} =>
       Aligned(product_data_list) /\ Aligned(reviews_list)
  /\ pc = "done" => Aligned(analyses)

\* C8's case: a run of two entries is done, the analysis of the second entry
\* completed before that of the first, and the entries' results differ in
\* the detail and in the analysis stage.
C8_Witness ==
  /\ pc = "done"
  /\ Len(top_products) = 2
  /\ analysis_order = <<2, 1>>
  /\ analyses[1].kind # analyses[2].kind
  /\ product_data_list[1].kind # product_data_list[2].kind

\* C9: if the detail fetch of one entry raises, collect_product_data raises
\* (run() fails with that error), no review fetch and no analysis request is
\* ever issued, and no detail result is handed to run().
C9_DetailFailFast ==
  DetailRaised =>
    /\ pc \in {"detail", "failed"}
    /\ pc = "failed" => run_error.kind = "detail"
    /\ review_issued = <<>>
    /\ review_inflight = 0
    /\ analysis_tasks = <<>>
    /\ product_data_list = <<>>

\* C9's case: of two detail fetches the second raised and the first
\* succeeded, and the run has failed.
C9_Witness ==
  /\ pc = "failed"
  /\ Len(detail_tasks) = 2
  /\ detail_tasks[1].state = "data"
  /\ detail_tasks[2].state = "raised"

\* C10: a provider's failure value ({} for a detail record, [] for a review
\* set after a failed job, None for an analysis) aborts the run: the next
\* stage is not started on it and it is not among the stage's results.
C10_FailureValueAborts ==
  /\ pc \in {"reviews", "analysis", "done"} =>
       ~HasFailureValue(product_data_results)
  /\ pc \in {"analysis", "done"} => ~HasFailureValue(reviews_list)
  /\ pc = "done" => ~HasFailureValue(analyses)

\* The calls made to one provider, in the order they were made.
CallsTo(provider) == SelectSeq(calls, LAMBDA c : c.provider = provider)

\* How many review fetches have ended: those whose set was appended and the
\* one that raised.
ReviewsReturned ==
  Len(review_results) + (IF run_error.kind = "reviews" THEN 1 ELSE 0)

\* C11: the review fetches are made one at a time in shortlist order: at
\* most one is in flight, the fetch of entry k is the k-th one issued and is
\* issued only once the k-1 before it have returned, and none is issued
\* while a detail fetch is still pending.
C11_ReviewsSequential ==
  LET issued == CallsTo("review")
  IN /\ Len(issued) - ReviewsReturned \in {0, 1}
     /\ Len(issued) <= Len(top_products)
     /\ Len(review_issued) = Len(issued)
     /\ \A k \in 1..Len(issued) :
          /\ issued[k].entry = k
          /\ review_issued[k] = top_products[k].asin
     /\ issued # <<>> =>
          /\ Len(detail_tasks) = Len(top_products)
          /\ \A i \in 1..Len(detail_tasks) : detail_tasks[i].state # "pending"

\* C11's case: the detail fetch of the second entry ended before that of the
\* first, the reviews of the first entry are in, and the fetch of the second
\* entry is the one in flight.
C11_Witness ==
  /\ pc = "reviews"
  /\ detail_order = <<2, 1>>
  /\ Len(review_results) = 1
  /\ CallsTo("review") = <<Call("review", 1), Call("review", 2)>>

C13_FetchedReviewsKept ==
  run_error.kind = "reviews" =>
    /\ Len(reviews_list) = run_error.entry - 1
    /\ reviews_list = review_results

\* C14: when an analysis request has been made, every detail fetch has
\* ended without an exception, no review fetch is in flight, and run() holds
\* one detail record and one review set per shortlist entry, each the
\* result of the call made for that entry.
C14_AnalysisAfterAllData ==
  (CallsTo("analysis") # <<>> \/ analysis_tasks # <<>>) =>
    /\ review_inflight = 0
    /\ Len(detail_tasks) = Len(top_products)
    /\ Len(product_data_list) = Len(top_products)
    /\ Len(reviews_list) = Len(top_products)
    /\ \A i \in 1..Len(top_products) :
         /\ detail_tasks[i].state \notin {"pending", "raised"}
         /\ product_data_list[i].for = top_products[i].asin
         /\ product_data_list[i].kind \notin {"pending", "raised"}
         /\ reviews_list[i].for = top_products[i].asin
         /\ reviews_list[i].kind # "raised"

\* C14's case: the analysis requests of two entries have just been made.
C14_Witness ==
  /\ pc = "analysis"
  /\ Len(top_products) = 2
  /\ analysis_order = <<>>
  /\ CallsTo("analysis") = <<Call("analysis", 1), Call("analysis", 2)>>

\* C15: when the review stage fails after the detail stage completed,
\* rainforest_products.json has been written; when the analysis stage fails,
\* rainforest_products.json and reviews.json have been written; and every
\* stage failure leaves serp_raw.json and serp_filtered.json behind.
C15_ArtifactsSurvive ==
  /\ run_error.kind \in {"detail", "reviews", "analysis"} =>
       {"serp_raw.json", "serp_filtered.json"} \subseteq files
  /\ run_error.kind = "reviews" => "rainforest_products.json" \in files
  /\ run_error.kind = "analysis" =>
       {"rainforest_products.json", "reviews.json"} \subseteq files

\* C16: the report is there only in a run that is done without an error and
\* in which no call of any stage raised; a run that failed carries the
\* exception that left run() and has no report.
C16_ReportOnlyOnSuccess ==
  /\ (report \/ "report.html" \in files) =>
       /\ pc = "done"
       /\ run_error = NoError
       /\ Len(top_products) > 0
       /\ Len(analyses) = Len(top_products)
       /\ \A i \in 1..Len(top_products) :
            /\ detail_tasks[i].state # "raised"
            /\ reviews_list[i].kind # "raised"
            /\ analyses[i].kind # "raised"
  /\ pc = "failed" =>
       /\ run_error # NoError
       /\ ~report
       /\ "report.html" \notin files

\* C16's case: of two analyses the first succeeded and the second raised,
\* and the run has failed.
C16_Witness ==
  /\ pc = "failed"
  /\ run_error = Err("analysis", 2)
  /\ analysis_tasks[1].state = "analysis"
  /\ "reviews.json" \in files

\* C17: no provider is called twice for the same shortlist entry, and the
\* search is called at most once.
C17_NoRetry ==
  \A k, l \in 1..Len(calls) : k # l => calls[k] # calls[l]

\* C17's case: the review fetch of the first entry came back with the
\* provider's failure value, that of the second raised, and the run failed.
C17_Witness ==
  /\ pc = "failed"
  /\ run_error = Err("reviews", 2)
  /\ review_results[1].kind = "failure_value"
  /\ \E i \in 1..Len(detail_tasks) : detail_tasks[i].state = "failure_value"

\* C18: a search with no candidate, and a filter with no survivor, end the
\* run by a normal return: no exception, no detail, review or analysis call,
\* no report; with no survivor serp_raw.json is written and
\* serp_filtered.json is not.
C18_EarlyReturn ==
  /\ (pc # "start" /\ "search" \in credentials /\ raw_results = <<>>) =>
       pc = "returned"
  /\ (pc \notin {"start", "searched"} /\ raw_results # <<>>
        /\ filtered_products = <<>>) => pc = "returned"
  /\ pc = "returned" =>
       /\ raw_results = <<>> \/ filtered_products = <<>>
       /\ run_error = NoError
       /\ calls = <<Call("search", 0)>>
       /\ ~report
       /\ "report.html" \notin files
       /\ raw_results = <<>> => files = {}
       /\ raw_results # <<>> => files = {"serp_raw.json"}

\* C18's case: the search found candidates and none survived the filter.
C18_Witness ==
  /\ pc = "returned"
  /\ Len(raw_results) = 2
  /\ filtered_products = <<>>

\* C19: a run that fails on a missing credential has made no call to any
\* provider.
C19_CredentialFatalAtStartup ==
  run_error.kind = "credential" => calls = <<>>

\* C20: on a text without the concerns marker, the empty text included,
\* _parse_analysis_text does not raise and returns two empty lists.
C20_NoMarkerNoItems ==
  (parse_pc = "parsed" /\ ConcernsMarker \notin Range(parse_text)) =>
    /\ parse_result.raised = "none"
    /\ parse_result.strengths = <<>>
    /\ parse_result.concerns = <<>>

\* C20's case: a parsed text without the marker that holds the strengths
\* header, a numbered line and a dashed line.
C20_Witness ==
  /\ parse_pc = "parsed"
  /\ ConcernsMarker \notin Range(parse_text)
  /\ {StrengthsHeader, "1", "-"} \subseteq Range(parse_text)

\* ------------------------------------------- vocabulary of the parser claims
\* The 'no findings' phrases of the modelled texts, in the letter case they
\* are written in.
PhraseTokens == {"No concerns identified", "NO STRENGTHS IDENTIFIED"}

\* The item text is one of the phrases and nothing else.
IsPhrase(body) == Len(body) = 1 /\ body[1] \in PhraseTokens

\* The item text holds one of the phrases.
MentionsPhrase(body) == \E k \in 1..Len(body) : body[k] \in PhraseTokens

NoRepeat(s) == \A i, j \in 1..Len(s) : i # j => s[i] # s[j]

ParsedSectioned == parse_pc = "parsed_sectioned"

\* C21: on a sectioned text of N >= 3 numbered strengths and M >= 3 numbered
\* concerns, the items of a section pairwise different and none holding a
\* 'no findings' phrase, _parse_analysis_text returns the N strength items
\* and the M concern items, in order, each the text after its number.
C21_RoundTrip ==
  ( /\ ParsedSectioned
    /\ Len(parse_strengths_in) >= 3
    /\ Len(parse_concerns_in) >= 3
    /\ \A k \in 1..Len(parse_strengths_in) :
         ~MentionsPhrase(parse_strengths_in[k])
    /\ \A k \in 1..Len(parse_concerns_in) :
         ~MentionsPhrase(parse_concerns_in[k]) )
  => /\ parse_result.strengths = parse_strengths_in
     /\ parse_result.concerns = parse_concerns_in

\* C22: each list _parse_analysis_text returns holds no item twice and no
\* item with a 'no findings' phrase in it, and a section whose only list
\* line is such a phrase, in any letter case, gives an empty list.
C22_NoRepeatNoPlaceholder ==
  parse_pc # "start" =>
    /\ NoRepeat(parse_result.strengths)
    /\ NoRepeat(parse_result.concerns)
    /\ \A k \in 1..Len(parse_result.strengths) :
         ~MentionsPhrase(parse_result.strengths[k])
    /\ \A k \in 1..Len(parse_result.concerns) :
         ~MentionsPhrase(parse_result.concerns[k])
    /\ (ParsedSectioned /\ Len(parse_strengths_in) = 1
          /\ IsPhrase(parse_strengths_in[1])) => parse_result.strengths = <<>>
    /\ (ParsedSectioned /\ Len(parse_concerns_in) = 1
          /\ IsPhrase(parse_concerns_in[1])) => parse_result.concerns = <<>>

\* C22's case: the concerns section holds a phrase and nothing else, and two
\* strength lines clean to the same item, which is listed once.
C22_Witness ==
  /\ ParsedSectioned
  /\ Len(parse_concerns_in) = 1
  /\ IsPhrase(parse_concerns_in[1])
  /\ parse_result.concerns = <<>>
  /\ {<<"3", " ", "h">>, <<"5", " ", "h">>} \subseteq Range(parse_strengths_in)
  /\ \E k \in 1..Len(parse_result.strengths) :
       parse_result.strengths[k] = <<"h">>

\* C30: a concern item is dropped if and only if it is one of the 'no
\* findings' phrases, whatever its letter case; an item that holds a phrase
\* inside a longer sentence is kept.  (The concern items of the sectioned
\* texts are pairwise different and none begins with an enumeration
\* character, so nothing else drops or changes them.)
C30_PlaceholderExact ==
  ParsedSectioned =>
    \A k \in 1..Len(parse_concerns_in) :
      (parse_concerns_in[k] \in Range(parse_result.concerns))
        <=> ~IsPhrase(parse_concerns_in[k])

\* ------------------------------------------ vocabulary of the price claims
\* The price is there and is one number: a number, or a string whose digits
\* and dots read as one.
PriceParsable(p) ==
  \/ p.price.kind = "num"
  \/ p.price.kind = "str" /\ FloatParses(PriceClean(p.price.chars))

\* No price key, None, or a string that is not one number.
PriceMissingOrUnparsable(p) == ~PriceParsable(p)

\* The position of x in a list that holds it once.
PositionIn(s, x) == CHOOSE k \in 1..Len(s) : s[k] = x

TiedKeys(x, y) == SameRank(x, y) /\ PriceKey(x) = PriceKey(y)

\* C25: among the selected candidates of equal rating and review count, none
\* whose price is missing (no key, None) or unparsable stands before one
\* whose price parses.
C25_MissingPriceLast ==
  Selected =>
    \A i, j \in 1..Len(sel_result.out) :
      ( /\ i < j
        /\ SameRank(sel_result.out[i], sel_result.out[j])
        /\ PriceParsable(sel_result.out[j]) )
      => PriceParsable(sel_result.out[i])

\* C26: two selected candidates that tie on rating, review count and parsed
\* price stand in the order they had in the input of select_top_products.
C26_StableTies ==
  /\ Selected =>
       \A i, j \in 1..Len(sel_result.out) :
         (i < j /\ TiedKeys(sel_result.out[i], sel_result.out[j])) =>
           PositionIn(sel_products, sel_result.out[i])
             < PositionIn(sel_products, sel_result.out[j])
  /\ pc = "shortlisted" =>
       \A i, j \in 1..Len(top_products) :
         (i < j /\ TiedKeys(top_products[i], top_products[j])) =>
           PositionIn(filtered_products, top_products[i])
             < PositionIn(filtered_products, top_products[j])

\* C26's case: of three candidates the second and the third tie and are
\* selected ahead of the first, in their input order.
C26_Witness ==
  /\ sel_pc = "selected"
  /\ sel_result.raised = "none"
  /\ Len(sel_products) = 3
  /\ sel_result.out = <<sel_products[2], sel_products[3]>>
  /\ TiedKeys(sel_products[2], sel_products[3])
  /\ PriceParsable(sel_products[2])

\* ---------------------------------------------------------------- C23
\* The orderings of a list: the list read through each permutation of its
\* positions.
Orderings(s) ==
  {[i \in 1..Len(s) |-> s[f[i]]] : f \in Permutations(1..Len(s))}

\* The number of positions of a list that hold a record.
Occurrences(s, r) == Cardinality({k \in 1..Len(s) : s[k] = r})

\* C23: regenerate_html associates reviews with entries by identifier, not
\* by position: whatever the order of the persisted reviews, the reviews of
\* entry i are exactly the persisted records tagged with entry i's
\* identifier, each as often as it is persisted.
C23_ReviewsByIdentifier ==
  regen_pc = "generated" =>
    /\ Len(regen_reviews_list) = Len(regen_products)
    /\ \A i \in 1..Len(regen_products) :
         /\ \A r \in PersistedReviews :
              Occurrences(regen_reviews_list[i], r) =
                IF r.asin = regen_products[i].asin
                  THEN Occurrences(regen_all_reviews, r) ELSE 0
         /\ \A o \in Orderings(regen_all_reviews) :
              Range(ReviewsFor(o, regen_products, i)) =
                Range(regen_reviews_list[i])

\* Two entries; the first persisted review belongs to the second entry, the
\* second to the first, and a third to no entry.
C23_Witness ==
  /\ regen_pc = "generated"
  /\ Len(regen_products) = 2
  /\ Len(regen_all_reviews) = 3
  /\ regen_all_reviews[1].asin = regen_products[2].asin
  /\ regen_all_reviews[2].asin = regen_products[1].asin
  /\ regen_all_reviews[3].asin = "C"
  /\ regen_reviews_list[1] = <<regen_all_reviews[2]>>

\* ---------------------------------------------------------------- C24
\* The products a fetched page brought: those of its body, the organic
\* results when the body has no 'products'; none when the request failed.
FetchedProducts(response) ==
  IF response.kind # "ok" THEN <<>>
  ELSE IF response.products # <<>> THEN response.products
  ELSE response.organic_results

\* The page gives no next-page signal.
NoNextSignal(response) == response.pagination # "next"

RECURSIVE Concatenated(_)
Concatenated(pages) ==
  IF pages = <<>> THEN <<>>
  ELSE FetchedProducts(Head(pages)) \o Concatenated(Tail(pages))

\* C24: the paginated search requests pages 1, 2, ... in order and makes at
\* most `pages` requests; after an empty page or a page with no next-page
\* signal no further page is requested; the result is the concatenation, in
\* page order, of the products of the pages fetched.
C24_PagesInOrder ==
  /\ Len(srch_requests) <= srch_pages
  /\ Len(srch_responses) = Len(srch_requests)
  /\ \A k \in 1..Len(srch_requests) :
       /\ srch_requests[k] = k
       /\ ( FetchedProducts(srch_responses[k]) = <<>>
            \/ NoNextSignal(srch_responses[k]) ) => k = Len(srch_requests)
  /\ srch_all_products = Concatenated(srch_responses)

\* A search over three pages at most that returned after its second page,
\* which had products and no next-page signal.
C24_Witness ==
  /\ srch_pc = "returned"
  /\ srch_pages = 3
  /\ srch_requests = <<1, 2>>
  /\ srch_responses[1].products = <<"p1", "p2">>
  /\ srch_responses[2].products = <<>>
  /\ srch_responses[2].organic_results = <<"o1">>
  /\ srch_responses[2].pagination = "no_next"
  /\ srch_all_products = <<"p1", "p2", "o1">>

\* ---------------------------------------------------------------- C27
\* The fields of a shortlist entry as the claim lists them, and with the
\* clean link.
SevenFields ==
  {"asin", "title", "link", "thumbnail", "rating", "reviews", "price"}

EightFields == SevenFields \cup {"link_clean"}

\* The value a candidate has for a field: None where it has none.
CandidateValue(candidate, field) ==
  CASE field \in {"title", "link", "link_clean", "thumbnail"} ->
         IF candidate[field] = AbsentKey THEN NoneStr ELSE candidate[field]
    [] field = "price" ->
         IF candidate.price.kind = "absent" THEN NonePrice ELSE candidate.price
    [] OTHER -> candidate[field]

\* Every entry of the shortlist has exactly the given fields, each with the
\* value of one candidate of the search.
ShortlistCarries(shortlist, fields) ==
  \A i \in 1..Len(shortlist) :
    /\ DOMAIN shortlist[i] = fields
    /\ \E k \in 1..Len(raw_results) :
         \A f \in fields : shortlist[i][f] = CandidateValue(raw_results[k], f)

\* The claim as it stands: every shortlist entry carries exactly the seven
\* fields identifier, title, link, thumbnail, rating, reviews and price,
\* each copied from the candidate, and no later step modifies an entry.
C27_SevenFieldsOnly ==
  [][ /\ ShortlistCarries(top_products', SevenFields)
      /\ top_products # <<>> => top_products' = top_products ]_vars

\* C27: every shortlist entry carries exactly the eight fields identifier,
\* title, link, clean link, thumbnail, rating, reviews and price and no
\* other, each holding the candidate's value for it (None where the
\* candidate has none), and no later step of the run modifies an entry.
C27_ProjectedFieldsOnly ==
  [][ /\ ShortlistCarries(top_products', EightFields)
      /\ top_products # <<>> => top_products' = top_products ]_vars

\* A finished run with two entries, one from a candidate without a clean
\* link.
C27_Witness ==
  /\ pc = "done"
  /\ Len(top_products) = 2
  /\ \E i \in 1..2 : top_products[i].link_clean = NoneStr
  /\ \E k \in 1..Len(raw_results) : raw_results[k].link_clean = AbsentKey

\* ---------------------------------------------------------------- C28
\* The dictionary has a title: the key is there and holds a string.
HasTitle(d) == d.title # AbsentKey /\ d.title # NoneStr

\* The claim as it stands: the title sent in the analysis request is the
\* entry's own title whenever the entry has one.
C28_EntryTitleFirst ==
  req_pc = "built" /\ HasTitle(req_product) => req_title = req_product.title

\* C28: the title sent in the analysis request is the detail record's
\* title whenever the detail record has one; the entry's own title is only
\* the fallback, sent when the detail record has no title field.
C28_DetailTitleFirst ==
  req_pc = "built" =>
    LET rf_product == RfProduct(req_product_data)
    IN /\ HasTitle(rf_product) => req_title = rf_product.title
       /\ rf_product.title = AbsentKey /\ HasTitle(req_product) =>
            req_title = req_product.title
       /\ req_title = req_product.title /\ HasTitle(req_product) =>
            ~HasTitle(rf_product) \/ rf_product.title = req_product.title

\* A request for an entry titled "t" whose detail record is titled "d".
C28_Witness ==
  /\ req_pc = "built"
  /\ req_product.title = "t"
  /\ req_product_data.kind = "data"
  /\ req_product_data.product.title = "d"
  /\ req_title = "d"

\* ---------------------------------------------------------------- C29
\* The detail record has no feature text: no bullet list, or an empty one.
NoFeatureText(product_data) ==
  \/ product_data.kind = "failure_value"
  \/ product_data.product.feature_bullets.kind = "absent"
  \/ /\ product_data.product.feature_bullets.kind = "list"
     /\ product_data.product.feature_bullets.items = <<>>

\* Every bullet on a line of its own, prefixed with "- ".
RECURSIVE BulletLines(_)
BulletLines(bullets) ==
  IF bullets = <<>> THEN <<>>
  ELSE (IF Len(bullets) = 1 THEN <<"- ", Head(bullets)>>
        ELSE <<"- ", Head(bullets), "\n">>) \o BulletLines(Tail(bullets))

\* C29: the description sent is the feature bullets one per line, each
\* prefixed with "- "; when there is no feature text (the list is absent or
\* empty) it is the literal "No description available", and never the
\* empty string.
C29_DescriptionOrPlaceholder ==
  req_pc = "built" =>
    /\ req_description # <<>>
    /\ NoFeatureText(req_product_data) =>
         req_description = <<"No description available">>
    /\ /\ req_product_data.kind = "data"
       /\ req_product_data.product.feature_bullets.kind = "list"
       /\ req_product_data.product.feature_bullets.items # <<>>
       => req_description =
            BulletLines(req_product_data.product.feature_bullets.items)

\* ---------------------------------------------------------------- C31
\* The item texts of a section that hold no 'no findings' phrase.
OwnTexts(bodies) ==
  {bodies[k] : k \in {i \in 1..Len(bodies) : ~MentionsPhrase(bodies[i])}}

\* C31: cleaning a list line removes only its enumeration token: every
\* numbered line's own text, also one that begins with a digit, is an item
\* of its section as written, and lines whose texts differ give different
\* items.
C31_OnlyEnumerationRemoved ==
  ParsedSectioned =>
    /\ OwnTexts(parse_strengths_in) \subseteq Range(parse_result.strengths)
    /\ OwnTexts(parse_concerns_in) \subseteq Range(parse_result.concerns)
    /\ Cardinality(Range(parse_result.strengths)) =
         Cardinality(OwnTexts(parse_strengths_in))

\* ---------------------------------------------------------------- C33
\* The lowest position whose call raised.
LowestRaised(tasks) ==
  CHOOSE i \in 1..Len(tasks) :
    /\ tasks[i].state = "raised"
    /\ \A j \in 1..Len(tasks) : tasks[j].state = "raised" => i <= j

\* Every call of the batch has ended.
BatchEnded(tasks) == \A i \in 1..Len(tasks) : tasks[i].state # "pending"

\* C33: in the detail and in the analysis stage every call of the batch is
\* issued before any result is looked at, the stage goes on or fails only
\* when every call of the batch has ended, and the exception a failed stage
\* raises is that of the raising entry lowest in the shortlist, whatever the
\* order of completion.
C33_BatchAwaited ==
  /\ pc = "detail" =>
       /\ Len(detail_tasks) = Len(top_products)
       /\ Len(CallsTo("detail")) = Len(top_products)
       /\ product_data_results = <<>>
  /\ (product_data_results # <<>> \/ run_error.kind = "detail") =>
       BatchEnded(detail_tasks)
  /\ run_error.kind = "detail" =>
       run_error.entry = LowestRaised(detail_tasks)
  /\ pc = "analysis" =>
       /\ Len(analysis_tasks) = Len(top_products)
       /\ Len(CallsTo("analysis")) = Len(top_products)
       /\ analyses = <<>>
  /\ (pc = "done" \/ run_error.kind = "analysis") => BatchEnded(analysis_tasks)
  /\ run_error.kind = "analysis" =>
       run_error.entry = LowestRaised(analysis_tasks)

\* Both analysis requests of a run raised, the second before the first, and
\* the run failed with the first entry's exception.
C33_Witness ==
  /\ pc = "failed"
  /\ run_error = Err("analysis", 1)
  /\ Len(analysis_tasks) = 2
  /\ \A i \in 1..2 : analysis_tasks[i].state = "raised"
  /\ analysis_order = <<2, 1>>

\* ---------------------------------------------------------------- C34
\* The statuses that end the wait.
EndsWait == {"SUCCEEDED", "FAILED", "ABORTED", "TIMED-OUT"}

\* True only after a poll that observed SUCCEEDED; a poll that observes
\* FAILED, ABORTED or TIMED-OUT is the last one and gives False; a wait no
\* status ended gives False once max_wait has elapsed, and no poll starts
\* after that; every poll that does not end the wait is followed by a sleep.
WaitIsBounded ==
  LET n == Len(wait_statuses)
  IN /\ wait_result =>
          /\ wait_pc = "returned"
          /\ n > 0
          /\ wait_statuses[n].status = "SUCCEEDED"
     /\ \A k \in 1..n :
          /\ wait_statuses[k].at < wait_max_wait
          /\ wait_statuses[k].status \in EndsWait =>
               /\ k = n
               /\ wait_pc = "returned"
               /\ wait_result = (wait_statuses[k].status = "SUCCEEDED")
          /\ wait_statuses[k].status \notin EndsWait <=>
               k \in Range(wait_sleeps)
     /\ ( /\ wait_pc = "returned"
          /\ (n = 0 \/ wait_statuses[n].status \notin EndsWait) ) =>
            /\ ~wait_result
            /\ wait_elapsed >= wait_max_wait

\* C34: wait_for_completion is a bounded wait: it always returns; True only
\* if a poll observed SUCCEEDED; False at the first poll that observes
\* FAILED, ABORTED or TIMED-OUT, and False once max_wait has elapsed; every
\* poll that does not end the wait is followed by a sleep of check_interval.
C34_BoundedWait == []WaitIsBounded /\ <>(wait_pc = "returned")

\* A wait that returned True at its third poll, after a poll without status
\* data and a poll that saw RUNNING, each followed by a sleep.
C34_Witness ==
  /\ wait_pc = "returned"
  /\ wait_result
  /\ Len(wait_statuses) = 3
  /\ wait_statuses[1].status = "no_data"
  /\ wait_statuses[2].status = "RUNNING"
  /\ wait_sleeps = <<1, 2>>

\* ---------------------------------------------------------------- C35
\* The answers after which the wait goes on: the snapshot is not ready, or
\* status 200 came with an empty body.
KeepsPolling == {"not_ready", "empty_body"}

\* C35: get_snapshot_data waits check_interval between consecutive polls:
\* every poll that neither returns data nor ends the wait with an error,
\* also one answered with status 200 and an empty body, is followed by a
\* sleep of check_interval before the next request.
C35_SleepBetweenPolls ==
  \A k \in 1..Len(snap_responses) :
    snap_responses[k] \in KeepsPolling => k \in Range(snap_sleeps)

\* ---------------------------------------------------------------- C36
\* C36: whatever the order of the records in the persisted analysis file,
\* the card the offline rebuild renders for shortlist entry i shows the
\* analysis that is stored with entry i's identifier.
C36_AnalysisByIdentifier ==
  regen_pc = "generated" =>
    \A i \in 1..Len(regen_cards) :
      \E k \in 1..Len(regen_analyses_file) :
        /\ regen_analyses_file[k].asin = regen_products[i].asin
        /\ regen_cards[i].analysis = regen_analyses_file[k].analysis

\* ---------------------------------------------------------------- C32
\* The number of reviews in the review sets before set i.
RECURSIVE ReviewsBefore(_, _)
ReviewsBefore(sets, i) ==
  IF i <= 1 THEN 0 ELSE ReviewsBefore(sets, i - 1) + Len(sets[i - 1])

\* The record is the review with the tags of the entry.
IsTaggedCopy(record, review, entry) ==
  /\ record.body = review.body
  /\ record.asin = entry.asin
  /\ record.product_title = entry.title

\* C32: reviews.json holds every review of every entry exactly once, each
\* tagged with the identifier and the title of the entry at the position of
\* its review set; and, the identifiers of the shortlist being unique,
\* regrouping the file by identifier as regenerate_html does gives, for
\* every entry i, the reviews of review set i in their original order.
C32_ReviewRoundTrip ==
  /\ pers_pc \in {"persisted", "analysed", "regrouped"} =>
       /\ Len(pers_all_reviews) =
            ReviewsBefore(pers_returned, Len(pers_returned) + 1)
       /\ \A i \in 1..Len(pers_returned) :
            \A k \in 1..Len(pers_returned[i]) :
              IsTaggedCopy(pers_all_reviews[ReviewsBefore(pers_returned, i) + k],
                           pers_returned[i][k], pers_top[i])
  /\ pers_pc = "regrouped" =>
       /\ Len(pers_regrouped) = Len(pers_top)
       /\ \A i \in 1..Len(pers_top) :
            /\ Len(pers_regrouped[i]) = Len(pers_returned[i])
            /\ \A k \in 1..Len(pers_returned[i]) :
                 IsTaggedCopy(pers_regrouped[i][k], pers_returned[i][k],
                              pers_top[i])

\* The reviews of two entries were regrouped: two different reviews of the
\* first entry, and one of the second that came with an 'asin' of the
\* provider's own.
C32_Witness ==
  /\ pers_pc = "regrouped"
  /\ Len(pers_top) = 2
  /\ Len(pers_returned[1]) = 2
  /\ pers_returned[1][1].body # pers_returned[1][2].body
  /\ Len(pers_returned[2]) = 1
  /\ pers_returned[2][1].asin = "X"
  /\ Len(pers_regrouped[1]) = 2

\* ---------------------------------------------------------------- C37
\* C37: persisting the reviews leaves the in-memory collections as they
\* were: the review records handed to the analysis of entry i are exactly
\* the records the review provider returned for entry i, no field added or
\* overwritten.
C37_ReviewsUntouched ==
  pers_pc \in {"analysed", "regrouped"} => pers_handed = pers_returned

\* ---------------------------------------------------------------- C38
\* The request failed: an exception, or a status other than 200.
RequestFailed(response) == response.kind \in {"raised", "status"}

\* C38: search_products_paginated never raises: when the request for page
\* k fails it requests nothing more and returns exactly the products of
\* pages 1..k-1, and run() goes on with this partial set of candidates
\* whenever it is not empty.
C38_PartialOnFailure ==
  /\ \A k \in 1..Len(srch_responses) :
       RequestFailed(srch_responses[k]) =>
         /\ k = Len(srch_responses)
         /\ srch_pc \in {"break", "returned"}
         /\ srch_all_products = Concatenated(SubSeq(srch_responses, 1, k - 1))
  /\ srch_run # "pending" =>
       /\ srch_pc = "returned"
       /\ srch_all_products # <<>> => srch_run = "searched"

\* The request for the second page raised; the first page's two products
\* were returned and run() went on with them.
C38_Witness ==
  /\ srch_run = "searched"
  /\ Len(srch_responses) = 2
  /\ srch_responses[2].kind = "raised"
  /\ srch_all_products = <<"p1", "p2">>

\* The reasons run() can end with an exception: a missing credential, a
\* provider call that failed, a ranking error.
AbortReasons ==
  {"credential", "detail", "reviews", "analysis", "ValueError", "TypeError"}

\* C39: save_to_json never raises: no exception of a failed write
\* reaches run(), so run() never ends because of a write, and a run that
\* ends with an error ends for one of the reasons of its stages.
C39_SaveNeverRaises ==
  /\ run_error.kind # "save"
  /\ pc = "failed" => run_error.kind \in AbortReasons

\* A run in which every write of save_to_json failed went through every
\* stage and produced its report.
C39_Witness ==
  /\ Cardinality(failing_writes) = 5
  /\ pc = "done"
  /\ report
  /\ top_products # <<>>
  /\ Len(analyses) = Len(top_products)
  /\ files = {"report.html"}

====
